---------------------------- MODULE Spec2Model ----------------------------
(***************************************************************************)
(* A model of the Lokutor JS SDK clients (browser variant of client.ts):   *)
(* VoiceAgentClient and TTSClient over the WebSocket transport.            *)
(*                                                                         *)
(* JavaScript values are records tagged by type; a JavaScript string is    *)
(* the sequence of its characters, a number is held in hundredths.         *)
(***************************************************************************)
EXTENDS Integers, Sequences, FiniteSets, TLC

\* ------------------------------------------------------------------ bounds
\* Sockets one VoiceAgentClient instance may create (connect() calls).
MaxSockets == 2
\* Audio frames the caller hands to sendAudio() that the transport accepts.
MaxAudio == 1
\* Listeners registered through onAudio().
MaxListeners == 2
\* Longest inbound audio chunk, in bytes.
MaxChunkLen == 2
\* synthesize() calls on the TTSClient.
MaxCalls == 2
\* Inbound frames whose arrival and dispatch the history records.
MaxFrames == 3

\* ------------------------------------------------------- JavaScript values
Undefined == [t |-> "undefined"]
Null == [t |-> "null"]
Str(chars) == [t |-> "string", s |-> chars]
Num(hundredths) == [t |-> "number", h |-> hundredths]
Bool(b) == [t |-> "boolean", b |-> b]
Arr(items) == [t |-> "array", a |-> items]
Obj(fields) == [t |-> "object", f |-> fields]

\* ToBoolean: undefined, null, "", 0 and false are falsy.
Truthy(v) ==
  CASE v.t = "undefined" -> FALSE
    [] v.t = "null" -> FALSE
    [] v.t = "string" -> v.s # <<>>
    [] v.t = "number" -> v.h # 0
    [] v.t = "boolean" -> v.b
    [] OTHER -> TRUE

\* a || b
OrElse(a, b) == IF Truthy(a) THEN a ELSE b

\* v.key for a value that is neither null nor undefined: own property of an
\* object, undefined on anything else the model holds.
Get(v, key) ==
  IF v.t = "object" /\ key \in DOMAIN v.f THEN v.f[key] ELSE Undefined

\* ------------------------------------------------------------------- types.ts
VoiceStyle_F1 == Str(<<"F", "1">>)
VoiceStyle_M2 == Str(<<"M", "2">>)
Language_ENGLISH == Str(<<"e", "n">>)
Language_SPANISH == Str(<<"e", "s">>)
\* AUDIO_CONFIG as exported: 44100 Hz, mono, 20 ms.
AUDIO_CONFIG_Shipped ==
  [SAMPLE_RATE |-> 44100, CHANNELS |-> 1, CHUNK_DURATION_MS |-> 20]

\* A CHUNK_SIZE getter that rounds to the nearest integer.
CHUNK_SIZE_Rounded(this) ==
  ((this.SAMPLE_RATE * this.CHUNK_DURATION_MS) + 500) \div 1000

\* get CHUNK_SIZE(): Math.floor((SAMPLE_RATE * CHUNK_DURATION_MS) / 1000), of
\* non-negative integers whose product and quotient a double holds exactly.
CHUNK_SIZE(this) ==
  (this.SAMPLE_RATE * this.CHUNK_DURATION_MS) \div 1000

DEFAULT_URLS_VOICE_AGENT ==
  Str(<< "w", "s", "s", ":", "/", "/", "a", "p", "i", ".", "l", "o", "k", "u",
         "t", "o", "r", ".", "c", "o", "m", "/", "w", "s", "/", "a", "g", "e",
         "n", "t" >>)
DEFAULT_URLS_TTS ==
  Str(<< "w", "s", "s", ":", "/", "/", "a", "p", "i", ".", "l", "o", "k", "u",
         "t", "o", "r", ".", "c", "o", "m", "/", "w", "s", "/", "t", "t", "s" >>)

\* ------------------------------------------------------------------ frames
\* JSON.stringify of an object literal: a text frame holding the members in
\* the literal's order; a member whose value is undefined is left out.
JSONStringify(members) ==
  [kind |-> "text", json |-> SelectSeq(members, LAMBDA m : m[2] # Undefined)]
BinaryFrame(bytes) == [kind |-> "binary", bytes |-> bytes]

\* ------------------------------------------------------------------ base64
B64Alphabet ==
  << "A", "B", "C", "D", "E", "F", "G", "H", "I", "J", "K", "L", "M",
     "N", "O", "P", "Q", "R", "S", "T", "U", "V", "W", "X", "Y", "Z",
     "a", "b", "c", "d", "e", "f", "g", "h", "i", "j", "k", "l", "m",
     "n", "o", "p", "q", "r", "s", "t", "u", "v", "w", "x", "y", "z",
     "0", "1", "2", "3", "4", "5", "6", "7", "8", "9", "+", "/" >>

B64Char(sextet) == B64Alphabet[sextet + 1]
B64Index(c) == (CHOOSE i \in DOMAIN B64Alphabet : B64Alphabet[i] = c) - 1
IsB64Char(c) == \E i \in DOMAIN B64Alphabet : B64Alphabet[i] = c

\* The sender's encoding of an audio chunk (RFC 4648, with padding).
RECURSIVE Base64Encode(_)
Base64Encode(b) ==
  IF Len(b) = 0 THEN <<>>
  ELSE IF Len(b) = 1 THEN
    << B64Char(b[1] \div 4), B64Char((b[1] % 4) * 16), "=", "=" >>
  ELSE IF Len(b) = 2 THEN
    << B64Char(b[1] \div 4), B64Char((b[1] % 4) * 16 + b[2] \div 16),
       B64Char((b[2] % 16) * 4), "=" >>
  ELSE
    << B64Char(b[1] \div 4), B64Char((b[1] % 4) * 16 + b[2] \div 16),
       B64Char((b[2] % 16) * 4 + b[3] \div 64), B64Char(b[3] % 64) >>
    \o Base64Encode(SubSeq(b, 4, Len(b)))

\* The bytes a run of sextets decodes to; leftover bits are discarded.
RECURSIVE DecodeSextets(_)
DecodeSextets(x) ==
  IF Len(x) < 2 THEN <<>>
  ELSE IF Len(x) = 2 THEN << x[1] * 4 + x[2] \div 16 >>
  ELSE IF Len(x) = 3 THEN
    << x[1] * 4 + x[2] \div 16, (x[2] % 16) * 16 + x[3] \div 4 >>
  ELSE
    << x[1] * 4 + x[2] \div 16, (x[2] % 16) * 16 + x[3] \div 4,
       (x[3] % 4) * 64 + x[4] >>
    \o DecodeSextets(SubSeq(x, 5, Len(x)))

IsWhitespace(c) == c \in {" ", "\t", "\n", "\r", "\f"}
StripWhitespace(chars) == SelectSeq(chars, LAMBDA c : ~IsWhitespace(c))

\* One or two "=" are removed from the end of a text whose length is a
\* multiple of four.
StripPadding(chars) ==
  LET n == Len(chars) IN
  IF n > 0 /\ n % 4 = 0 /\ chars[n] = "="
  THEN IF chars[n - 1] = "=" THEN SubSeq(chars, 1, n - 2)
       ELSE SubSeq(chars, 1, n - 1)
  ELSE chars

\* window.atob (forgiving-base64 decode): the char codes of the binary
\* string, or an InvalidCharacterError.
Atob(chars) ==
  LET body == StripPadding(StripWhitespace(chars)) IN
  IF Len(body) % 4 = 1 \/ \E i \in DOMAIN body : ~IsB64Char(body[i])
  THEN [ok |-> FALSE]
  ELSE [ok |-> TRUE,
        codes |-> DecodeSextets([i \in DOMAIN body |-> B64Index(body[i])])]

\* String(v) for the values the model holds as message members.
RECURSIVE Digits(_)
Digits(n) ==
  LET d == << "0", "1", "2", "3", "4", "5", "6", "7", "8", "9" >> IN
  IF n < 10 THEN << d[n + 1] >> ELSE Digits(n \div 10) \o << d[(n % 10) + 1] >>

RECURSIVE JSToString(_), JoinItems(_)
JSToString(v) ==
  CASE v.t = "string" -> v.s
    [] v.t = "undefined" -> << "u", "n", "d", "e", "f", "i", "n", "e", "d" >>
    [] v.t = "null" -> << "n", "u", "l", "l" >>
    [] v.t = "boolean" ->
         IF v.b THEN << "t", "r", "u", "e" >> ELSE << "f", "a", "l", "s", "e" >>
    [] v.t = "number" ->
         Digits(v.h \div 100)
         \o (IF v.h % 100 = 0 THEN <<>>
             ELSE IF v.h % 10 = 0 THEN << "." >> \o Digits((v.h % 100) \div 10)
             ELSE << ".", Digits((v.h % 100) \div 10)[1], Digits(v.h % 10)[1] >>)
    [] v.t = "array" -> JoinItems(v.a)
    [] OTHER -> << "[", "o", "b", "j", "e", "c", "t", " ",
                   "O", "b", "j", "e", "c", "t", "]" >>
\* Array.prototype.join(","): null and undefined items give the empty text.
JoinItems(items) ==
  LET text(v) == IF v.t \in {"null", "undefined"} THEN <<>> ELSE JSToString(v) IN
  IF items = <<>> THEN <<>>
  ELSE IF Len(items) = 1 THEN text(items[1])
  ELSE text(items[1]) \o << "," >> \o JoinItems(Tail(items))

\* base64ToUint8Array: atob, then one byte per char code.
base64ToUint8Array(base64) ==
  LET binaryString == Atob(JSToString(base64)) IN
  IF ~binaryString.ok THEN [ok |-> FALSE]
  ELSE [ok |-> TRUE,
        bytes |-> [i \in DOMAIN binaryString.codes |-> binaryString.codes[i] % 256]]

\* ------------------------------------------------------------------- state
VARIABLES
  AUDIO_CONFIG,    \* the exported AUDIO_CONFIG object: its data properties
  config,          \* the constructor's argument
  apiKey,          \* VoiceAgentClient.apiKey
  serverUrl,       \* VoiceAgentClient.serverUrl
  ttsClient,       \* the TTSClient: its apiKey and serverUrl
  prompt,          \* VoiceAgentClient.prompt
  voice,           \* VoiceAgentClient.voice
  language,        \* VoiceAgentClient.language
  ws,              \* VoiceAgentClient.ws: a socket of sockets, 0 for null
  isConnected,     \* VoiceAgentClient.isConnected
  audioListeners,  \* VoiceAgentClient.audioListeners
  sockets,         \* the WebSockets connect() has created, in creation order
  promises,        \* promises[s]: the completion of the connect() that made s
  calls,           \* the callback invocations the last step made, in order
  raised,          \* the last step ended by an exception leaving the SDK's code
  last,            \* the last step: operation, socket, argument
  tts,             \* the sessions TTSClient.synthesize() has started
  log              \* history: frames as they arrived, callbacks as they ran

vars ==
  << AUDIO_CONFIG, config, apiKey, serverUrl, ttsClient, prompt, voice, language, ws, isConnected, audioListeners,
     sockets, promises, calls, raised, last, tts, log >>

\* Message member texts.
T_prompt == << "p", "r", "o", "m", "p", "t" >>
T_voice == << "v", "o", "i", "c", "e" >>
T_language == << "l", "a", "n", "g", "u", "a", "g", "e" >>
T_audio == << "a", "u", "d", "i", "o" >>
T_transcript == << "t", "r", "a", "n", "s", "c", "r", "i", "p", "t" >>
T_status == << "s", "t", "a", "t", "u", "s" >>
T_error == << "e", "r", "r", "o", "r" >>
T_user == << "u", "s", "e", "r" >>
T_agent == << "a", "g", "e", "n", "t" >>
T_api_key == << "a", "p", "i", "_", "k", "e", "y" >>

CallbackNames ==
  {"onTranscription", "onResponse", "onAudio", "onStatus", "onError"}

Bytes(b) == [t |-> "bytes", b |-> b]
ErrorEvent(s) == [t |-> "event", type |-> "error", sock |-> s]

\* The history of inbound frames. With cap = 0 nothing is recorded; with a
\* positive cap the behaviour takes cap frames and every one is recorded:
\* wire holds the frames in arrival order, heard the callback invocations
\* in the order the handlers made them.
NoLog == [cap |-> 0, wire |-> <<>>, heard |-> <<>>]
EmptyLog == [cap |-> MaxFrames, wire |-> <<>>, heard |-> <<>>]
LogHasRoom == log.cap = 0 \/ Len(log.wire) < log.cap
Record(client, s, data, cs) ==
  IF log.cap = 0 THEN log
  ELSE [log EXCEPT
          !.wire = Append(@, [client |-> client, sock |-> s, data |-> data]),
          !.heard = @ \o [i \in DOMAIN cs |->
                            [client |-> client, sock |-> s, call |-> cs[i]]]]

\* ------------------------------------------------------------ the transport
\* new WebSocket(url): connecting to url, nothing sent.
NewWebSocket(url) ==
  [url |-> url, readyState |-> "CONNECTING", opened |-> FALSE, sent |-> <<>>,
   closeCalls |-> 0]

\* WebSocket.send(frame): an InvalidStateError while the socket is connecting;
\* otherwise the frame is handed to the transport.
\* A transport that puts a new frame ahead of the frames it already holds.
WsSend_Ahead(socks, s, frame) ==
  IF socks[s].readyState = "CONNECTING"
  THEN [sockets |-> socks, threw |-> TRUE]
  ELSE [sockets |-> [socks EXCEPT ![s].sent = << frame >> \o @],
        threw |-> FALSE]

WsSend(socks, s, frame) ==
  IF socks[s].readyState = "CONNECTING"
  THEN [sockets |-> socks, threw |-> TRUE]
  ELSE [sockets |-> [socks EXCEPT ![s].sent = Append(@, frame)], threw |-> FALSE]

\* WebSocket.close(): starts the closing handshake of a socket that is
\* connecting or open, does nothing to one that is closing or closed.
WsClose(socks, s) ==
  [socks EXCEPT ![s].closeCalls = @ + 1,
                ![s].readyState =
                  IF @ \in {"CONNECTING", "OPEN"} THEN "CLOSING" ELSE @]

\* A completion that takes every resolve and reject: the last one wins.
Settle_Overwrite(proms, s, outcome, value) ==
  [proms EXCEPT ![s] = [state |-> outcome, value |-> value]]

\* Promise resolve / reject: a settled promise stays as it is.
Settle(proms, s, outcome, value) ==
  IF proms[s].state = "pending"
  THEN [proms EXCEPT ![s] = [state |-> outcome, value |-> value]]
  ELSE proms

\* ---------------------------------------------------------- VoiceAgentClient
\* String.prototype.includes for a one-character search string.
Includes(chars, c) == \E i \in DOMAIN chars : chars[i] = c

\* A URL builder that always separates the key with '?'.
Url_QuestionMark(server, key) ==
  IF Truthy(key)
  THEN Str(server.s \o << "?" >> \o T_api_key \o << "=" >> \o JSToString(key))
  ELSE server

\* let url = this.serverUrl; if (this.apiKey) url += separator + 'api_key=' +
\* apiKey, where the separator is '&' if the URL has a '?' and '?' if not.
Url(server, key) ==
  IF Truthy(key)
  THEN Str(server.s \o (IF Includes(server.s, "?") THEN << "&" >> ELSE << "?" >>)
                   \o T_api_key \o << "=" >> \o JSToString(key))
  ELSE server

\* The constructor: the server URL defaults to the voice agent's endpoint,
\* voice and language default to F1 and en.
Construct(cfg) ==
  [apiKey |-> cfg.apiKey,
   serverUrl |-> OrElse(cfg.serverUrl, DEFAULT_URLS_VOICE_AGENT),
   prompt |-> cfg.prompt,
   voice |-> OrElse(cfg.voice, VoiceStyle_F1),
   language |-> OrElse(cfg.language, Language_ENGLISH)]

\* TTSClient's constructor: the server URL defaults to the TTS endpoint.
TTSConstruct(cfg) ==
  [apiKey |-> cfg.apiKey,
   serverUrl |-> OrElse(cfg.serverUrl, DEFAULT_URLS_TTS)]

Registered(cb) == cb \in config.callbacks

\* if (this.cb) this.cb(arg)
Invoke(cb, arg) == IF Registered(cb) THEN << [cb |-> cb, arg |-> arg] >> ELSE <<>>

\* The caller's function behind this call throws.
Throws(call) ==
  \/ call.cb \in config.throwing
  \/ call.cb = "audioListener" /\ call.id \in config.throwing

ThrowsIn(cs) == \E i \in DOMAIN cs : Throws(cs[i])

\* The calls a sequence of invocations gets to make: all of them, or those
\* up to and including the first that throws.
UpToThrow(cs) ==
  IF ThrowsIn(cs)
  THEN SubSeq(cs, 1, CHOOSE i \in DOMAIN cs :
                       Throws(cs[i]) /\ \A j \in 1..(i - 1) : ~Throws(cs[j]))
  ELSE cs

\* A sendConfig that sends the voice before the prompt.
ConfigMessages_VoiceFirst ==
  << JSONStringify(<< <<"type", Str(T_voice)>>, <<"data", voice>> >>),
     JSONStringify(<< <<"type", Str(T_prompt)>>, <<"data", prompt>> >>),
     JSONStringify(<< <<"type", Str(T_language)>>, <<"data", language>> >>) >>

\* The three configuration messages, in the order sendConfig sends them.
ConfigMessages ==
  << JSONStringify(<< <<"type", Str(T_prompt)>>, <<"data", prompt>> >>),
     JSONStringify(<< <<"type", Str(T_voice)>>, <<"data", voice>> >>),
     JSONStringify(<< <<"type", Str(T_language)>>, <<"data", language>> >>) >>

\* A sendConfig that sends the three messages and then sends them again.
sendConfig_Twice(socks, w, connected) ==
  IF w = 0 \/ ~connected THEN [sockets |-> socks, threw |-> FALSE]
  ELSE IF socks[w].readyState = "CONNECTING"
  THEN [sockets |-> socks, threw |-> TRUE]
  ELSE [sockets |-> [socks EXCEPT ![w].sent = @ \o ConfigMessages \o ConfigMessages],
        threw |-> FALSE]

\* sendConfig, with this.ws = w and this.isConnected = connected.
sendConfig(socks, w, connected) ==
  IF w = 0 \/ ~connected THEN [sockets |-> socks, threw |-> FALSE]
  ELSE
    LET r1 == WsSend(socks, w, ConfigMessages[1]) IN
    IF r1.threw THEN r1
    ELSE LET r2 == WsSend(r1.sockets, w, ConfigMessages[2]) IN
         IF r2.threw THEN r2
         ELSE WsSend(r2.sockets, w, ConfigMessages[3])

\* An emit that runs the listeners last-registered first.
emit_LastFirst(data) ==
  Invoke("onAudio", Bytes(data))
  \o [i \in DOMAIN audioListeners |->
        [cb |-> "audioListener",
         id |-> audioListeners[Len(audioListeners) + 1 - i],
         arg |-> Bytes(data)]]

\* emit('audio', data): the constructor's onAudio, then every listener.
emit(data) ==
  Invoke("onAudio", Bytes(data))
  \o [i \in DOMAIN audioListeners |->
        [cb |-> "audioListener", id |-> audioListeners[i], arg |-> Bytes(data)]]

handleBinaryMessage(data) == emit(data)

\* JSON.parse of a text payload: the value, or a SyntaxError.
JSONParse(text) ==
  IF text.json THEN [ok |-> TRUE, value |-> text.value] ELSE [ok |-> FALSE]

\* A handleTextMessage that reports what it cannot parse or does not
\* recognize to the error callback.
handleTextMessage_Reporting(text) ==
  UpToThrow(
    LET parsed == JSONParse(text) IN
    IF ~parsed.ok THEN Invoke("onError", Undefined)
    ELSE
      LET msg == parsed.value
          type == Get(msg, "type")
          data == Get(msg, "data")
      IN
      IF msg.t \in {"null", "undefined"} THEN Invoke("onError", Undefined)
      ELSE
        CASE type = Str(T_audio) ->
               IF Truthy(data)
               THEN LET buffer == base64ToUint8Array(data) IN
                    IF buffer.ok THEN handleBinaryMessage(buffer.bytes) ELSE <<>>
               ELSE <<>>
          [] type = Str(T_transcript) ->
               IF Get(msg, "role") = Str(T_user)
               THEN Invoke("onTranscription", data)
               ELSE Invoke("onResponse", data)
          [] type = Str(T_status) -> Invoke("onStatus", data)
          [] type = Str(T_error) -> Invoke("onError", data)
          [] OTHER -> Invoke("onError", msg))

\* A handleTextMessage that takes the agent's transcripts for the user's.
handleTextMessage_RolesSwapped(text) ==
  UpToThrow(
    LET parsed == JSONParse(text) IN
    IF ~parsed.ok THEN <<>>
    ELSE
      LET msg == parsed.value
          type == Get(msg, "type")
          data == Get(msg, "data")
      IN
      IF msg.t \in {"null", "undefined"} THEN <<>>
      ELSE
        CASE type = Str(T_audio) ->
               IF Truthy(data)
               THEN LET buffer == base64ToUint8Array(data) IN
                    IF buffer.ok THEN handleBinaryMessage(buffer.bytes) ELSE <<>>
               ELSE <<>>
          [] type = Str(T_transcript) ->
               IF Get(msg, "role") = Str(T_agent)
               THEN Invoke("onTranscription", data)
               ELSE Invoke("onResponse", data)
          [] type = Str(T_status) -> Invoke("onStatus", data)
          [] type = Str(T_error) -> Invoke("onError", data)
          [] OTHER -> <<>>)

\* A handleTextMessage that knows two roles: a transcript that is neither the
\* user's nor the agent's is dropped.
handleTextMessage_TwoRoles(text) ==
  UpToThrow(
    LET parsed == JSONParse(text) IN
    IF ~parsed.ok THEN <<>>
    ELSE
      LET msg == parsed.value
          type == Get(msg, "type")
          data == Get(msg, "data")
      IN
      IF msg.t \in {"null", "undefined"} THEN <<>>
      ELSE
        CASE type = Str(T_audio) ->
               IF Truthy(data)
               THEN LET buffer == base64ToUint8Array(data) IN
                    IF buffer.ok THEN handleBinaryMessage(buffer.bytes) ELSE <<>>
               ELSE <<>>
          [] type = Str(T_transcript) ->
               IF Get(msg, "role") = Str(T_user)
               THEN Invoke("onTranscription", data)
               ELSE IF Get(msg, "role") = Str(T_agent)
               THEN Invoke("onResponse", data)
               ELSE <<>>
          [] type = Str(T_status) -> Invoke("onStatus", data)
          [] type = Str(T_error) -> Invoke("onError", data)
          [] OTHER -> <<>>)

\* handleTextMessage: every exception inside is caught, a callback's too;
\* what follows the throw inside the try block is skipped.
handleTextMessage(text) ==
  UpToThrow(
    LET parsed == JSONParse(text) IN
    IF ~parsed.ok THEN <<>>
    ELSE
      LET msg == parsed.value
          type == Get(msg, "type")
          data == Get(msg, "data")
      IN
      IF msg.t \in {"null", "undefined"} THEN <<>>
      ELSE
        CASE type = Str(T_audio) ->
               IF Truthy(data)
               THEN LET buffer == base64ToUint8Array(data) IN
                    IF buffer.ok THEN handleBinaryMessage(buffer.bytes) ELSE <<>>
               ELSE <<>>
          [] type = Str(T_transcript) ->
               IF Get(msg, "role") = Str(T_user)
               THEN Invoke("onTranscription", data)
               ELSE Invoke("onResponse", data)
          [] type = Str(T_status) -> Invoke("onStatus", data)
          [] type = Str(T_error) -> Invoke("onError", data)
          [] OTHER -> <<>>)

Step(op, s, arg) == [op |-> op, sock |-> s, arg |-> arg]

\* A connect() that keeps to the socket the instance already made.
connect_KeepSocket ==
  /\ Len(sockets) < MaxSockets
  /\ sockets' = IF sockets = <<>> THEN Append(sockets, NewWebSocket(Url(serverUrl, apiKey))) ELSE sockets
  /\ promises' = IF sockets = <<>>
                 THEN Append(promises, [state |-> "pending", value |-> Undefined])
                 ELSE promises
  /\ ws' = Len(sockets')
  /\ calls' = <<>>
  /\ raised' = FALSE
  /\ last' = Step("connect", Len(sockets'), Undefined)
  /\ UNCHANGED << AUDIO_CONFIG, apiKey, serverUrl, ttsClient, log, tts, config, prompt, voice, language, isConnected, audioListeners >>

\* connect(): a new socket becomes this.ws; the completion is pending.
connect ==
  /\ Len(sockets) < MaxSockets
  /\ sockets' = Append(sockets, NewWebSocket(Url(serverUrl, apiKey)))
  /\ promises' = Append(promises, [state |-> "pending", value |-> Undefined])
  /\ ws' = Len(sockets) + 1
  /\ calls' = <<>>
  /\ raised' = FALSE
  /\ last' = Step("connect", Len(sockets) + 1, Undefined)
  /\ UNCHANGED << AUDIO_CONFIG, apiKey, serverUrl, ttsClient, log, tts, config, prompt, voice, language, isConnected, audioListeners >>

\* ws.onopen of socket s.
onopen(s) ==
  /\ sockets[s].readyState = "CONNECTING"
  /\ LET opened == [sockets EXCEPT ![s].readyState = "OPEN", ![s].opened = TRUE]
         r == sendConfig(opened, ws, TRUE)
     IN /\ sockets' = r.sockets
        /\ raised' = r.threw
        /\ promises' = IF r.threw THEN promises
                       ELSE Settle(promises, s, "resolved", Bool(TRUE))
  /\ isConnected' = TRUE
  /\ calls' = <<>>
  /\ last' = Step("open", s, Undefined)
  /\ UNCHANGED << AUDIO_CONFIG, apiKey, serverUrl, ttsClient, log, tts, config, prompt, voice, language, ws, audioListeners >>

\* An onmessage that ends the session when the server reports an error.
onmessage_CloseOnError(s, data) ==
  /\ sockets[s].opened
  /\ sockets[s].readyState \in {"OPEN", "CLOSING"}
  /\ calls' = IF data.kind = "binary"
              THEN UpToThrow(handleBinaryMessage(data.bytes))
              ELSE handleTextMessage(data.text)
  /\ raised' = (data.kind = "binary" /\ ThrowsIn(calls'))
  /\ last' = Step("message", s, data)
  /\ LogHasRoom
  /\ log' = Record("agent", s, data, calls')
  /\ LET reported == /\ data.kind = "text"
                     /\ JSONParse(data.text).ok
                     /\ Get(JSONParse(data.text).value, "type") = Str(T_error)
     IN /\ sockets' = IF reported THEN WsClose(sockets, s) ELSE sockets
        /\ isConnected' = IF reported THEN FALSE ELSE isConnected
  /\ UNCHANGED << AUDIO_CONFIG, apiKey, serverUrl, ttsClient, tts, config, prompt, voice, language, ws, audioListeners,
                  promises >>

\* An onmessage without a try block on either path: what a callback throws
\* while a text frame is dispatched leaves the handler too.
onmessage_Propagates(s, data) ==
  /\ sockets[s].opened
  /\ sockets[s].readyState \in {"OPEN", "CLOSING"}
  /\ calls' = IF data.kind = "binary"
              THEN UpToThrow(handleBinaryMessage(data.bytes))
              ELSE handleTextMessage(data.text)
  /\ raised' = ThrowsIn(calls')
  /\ last' = Step("message", s, data)
  /\ LogHasRoom
  /\ log' = Record("agent", s, data, calls')
  /\ UNCHANGED << AUDIO_CONFIG, apiKey, serverUrl, ttsClient, tts, config, prompt, voice,
                  language, ws, isConnected, audioListeners, sockets, promises >>

\* ws.onmessage of socket s: an ArrayBuffer or a text. Only the text path has
\* a try block; what a callback throws on the binary path leaves the handler.
onmessage(s, data) ==
  /\ sockets[s].opened
  /\ sockets[s].readyState \in {"OPEN", "CLOSING"}
  /\ calls' = IF data.kind = "binary"
              THEN UpToThrow(handleBinaryMessage(data.bytes))
              ELSE handleTextMessage(data.text)
  /\ raised' = (data.kind = "binary" /\ ThrowsIn(calls'))
  /\ last' = Step("message", s, data)
  /\ LogHasRoom
  /\ log' = Record("agent", s, data, calls')
  /\ UNCHANGED << AUDIO_CONFIG, apiKey, serverUrl, ttsClient, tts, config, prompt, voice, language, ws, isConnected,
                  audioListeners, sockets, promises >>

\* An onerror that ends the session: it marks the client disconnected.
onerror_Disconnects(s) ==
  /\ sockets[s].readyState \in {"CONNECTING", "OPEN"}
  /\ sockets' = [sockets EXCEPT ![s].readyState = "CLOSING"]
  /\ calls' = Invoke("onError", ErrorEvent(s))
  /\ promises' = IF ~isConnected /\ ~ThrowsIn(calls')
                 THEN Settle(promises, s, "rejected", ErrorEvent(s))
                 ELSE promises
  /\ isConnected' = FALSE
  /\ raised' = ThrowsIn(calls')
  /\ last' = Step("error", s, Undefined)
  /\ UNCHANGED << AUDIO_CONFIG, apiKey, serverUrl, ttsClient, log, tts, config, prompt,
                  voice, language, ws, audioListeners >>

\* ws.onerror of socket s. The transport reports an error when the handshake
\* or the connection fails; the socket is then closing and its close event
\* is still to come. An onError that throws keeps the handler from reject.
onerror(s) ==
  /\ sockets[s].readyState \in {"CONNECTING", "OPEN"}
  /\ sockets' = [sockets EXCEPT ![s].readyState = "CLOSING"]
  /\ calls' = Invoke("onError", ErrorEvent(s))
  /\ promises' = IF ~isConnected /\ ~ThrowsIn(calls')
                 THEN Settle(promises, s, "rejected", ErrorEvent(s))
                 ELSE promises
  /\ raised' = ThrowsIn(calls')
  /\ last' = Step("error", s, Undefined)
  /\ UNCHANGED << AUDIO_CONFIG, apiKey, serverUrl, ttsClient, log, tts, config, prompt, voice, language, ws, isConnected,
                  audioListeners >>

\* An onclose that reconnects: it opens a new socket in place of the closed one.
onclose_Reconnect(s) ==
  /\ sockets[s].readyState # "CLOSED"
  /\ sockets' = IF Len(sockets) < MaxSockets
                THEN Append([sockets EXCEPT ![s].readyState = "CLOSED"],
                            NewWebSocket(Url(serverUrl, apiKey)))
                ELSE [sockets EXCEPT ![s].readyState = "CLOSED"]
  /\ promises' = IF Len(sockets) < MaxSockets
                 THEN Append(promises, [state |-> "pending", value |-> Undefined])
                 ELSE promises
  /\ ws' = IF Len(sockets) < MaxSockets THEN Len(sockets) + 1 ELSE ws
  /\ isConnected' = FALSE
  /\ calls' = <<>>
  /\ raised' = FALSE
  /\ last' = Step("close", s, Undefined)
  /\ UNCHANGED << AUDIO_CONFIG, apiKey, serverUrl, ttsClient, log, tts, config, prompt,
                  voice, language, audioListeners >>

\* ws.onclose of socket s.
onclose(s) ==
  /\ sockets[s].readyState # "CLOSED"
  /\ sockets' = [sockets EXCEPT ![s].readyState = "CLOSED"]
  /\ isConnected' = FALSE
  /\ calls' = <<>>
  /\ raised' = FALSE
  /\ last' = Step("close", s, Undefined)
  /\ UNCHANGED << AUDIO_CONFIG, apiKey, serverUrl, ttsClient, log, tts, config, prompt, voice, language, ws, audioListeners,
                  promises >>

\* Binary frames handed to the transport so far.
AudioSent ==
  Cardinality({p \in UNION {{<<s, i>> : i \in DOMAIN sockets[s].sent} :
                              s \in DOMAIN sockets} :
                 sockets[p[1]].sent[p[2]].kind = "binary"})

\* A sendAudio that, with the handle cleared, sends on the socket made last.
sendAudio_LastSocket(audioData) ==
  /\ LET r == IF isConnected /\ sockets # <<>>
              THEN WsSend(sockets, IF ws # 0 THEN ws ELSE Len(sockets),
                          BinaryFrame(audioData))
              ELSE [sockets |-> sockets, threw |-> FALSE]
     IN /\ sockets' = r.sockets
        /\ raised' = r.threw
  /\ AudioSent' <= MaxAudio
  /\ calls' = <<>>
  /\ last' = Step("sendAudio", ws, Bytes(audioData))
  /\ UNCHANGED << AUDIO_CONFIG, apiKey, serverUrl, ttsClient, log, tts, config, prompt,
                  voice, language, ws, isConnected, audioListeners, promises >>

\* sendAudio(audioData)
sendAudio(audioData) ==
  /\ LET r == IF ws # 0 /\ isConnected
              THEN WsSend(sockets, ws, BinaryFrame(audioData))
              ELSE [sockets |-> sockets, threw |-> FALSE]
     IN /\ sockets' = r.sockets
        /\ raised' = r.threw
  /\ AudioSent' <= MaxAudio
  /\ calls' = <<>>
  /\ last' = Step("sendAudio", ws, Bytes(audioData))
  /\ UNCHANGED << AUDIO_CONFIG, apiKey, serverUrl, ttsClient, log, tts, config, prompt, voice, language, ws, isConnected,
                  audioListeners, promises >>

\* onAudio(callback)
onAudio(callback) ==
  /\ Len(audioListeners) < MaxListeners
  /\ audioListeners' = Append(audioListeners, callback)
  /\ calls' = <<>>
  /\ raised' = FALSE
  /\ last' = Step("onAudio", 0, Undefined)
  /\ UNCHANGED << AUDIO_CONFIG, apiKey, serverUrl, ttsClient, log, tts, config, prompt, voice, language, ws, isConnected, sockets,
                  promises >>

\* A disconnect() that closes the socket and keeps the handle.
disconnect_KeepHandle ==
  /\ sockets' = IF ws # 0 THEN WsClose(sockets, ws) ELSE sockets
  /\ ws' = ws
  /\ calls' = <<>>
  /\ raised' = FALSE
  /\ last' = Step("disconnect", ws, Undefined)
  /\ UNCHANGED << AUDIO_CONFIG, apiKey, serverUrl, ttsClient, log, tts, config, prompt, voice, language, isConnected, audioListeners,
                  promises >>

\* disconnect()
disconnect ==
  /\ sockets' = IF ws # 0 THEN WsClose(sockets, ws) ELSE sockets
  /\ ws' = 0
  /\ calls' = <<>>
  /\ raised' = FALSE
  /\ last' = Step("disconnect", ws, Undefined)
  /\ UNCHANGED << AUDIO_CONFIG, apiKey, serverUrl, ttsClient, log, tts, config, prompt, voice, language, isConnected, audioListeners,
                  promises >>

\* An assignment that pushes the changed field to the server when connected.
assign_Resend(field, value) ==
  /\ prompt' = IF field = "prompt" THEN value ELSE prompt
  /\ voice' = IF field = "voice" THEN value ELSE voice
  /\ language' = IF field = "language" THEN value ELSE language
  /\ sockets' = IF ws # 0 /\ isConnected
                THEN WsSend(sockets, ws,
                            JSONStringify(
                              << <<"type",
                                   Str(CASE field = "prompt" -> T_prompt
                                         [] field = "voice" -> T_voice
                                         [] OTHER -> T_language)>>,
                                 <<"data", value>> >>)).sockets
                ELSE sockets
  /\ calls' = <<>>
  /\ raised' = FALSE
  /\ last' = Step("assign", ws, [field |-> field, value |-> value])
  /\ UNCHANGED << AUDIO_CONFIG, apiKey, serverUrl, ttsClient, log, tts, config, ws,
                  isConnected, audioListeners, promises >>

\* client.prompt = value, client.voice = value, client.language = value: the
\* fields are public; an assignment stores the value and does nothing else.
assign(field, value) ==
  /\ prompt' = IF field = "prompt" THEN value ELSE prompt
  /\ voice' = IF field = "voice" THEN value ELSE voice
  /\ language' = IF field = "language" THEN value ELSE language
  /\ calls' = <<>>
  /\ raised' = FALSE
  /\ last' = Step("assign", ws, [field |-> field, value |-> value])
  /\ UNCHANGED << AUDIO_CONFIG, apiKey, serverUrl, ttsClient, log, tts, config, ws,
                  isConnected, audioListeners, sockets, promises >>

\* ------------------------------------------------------------------ inputs
S_hi == << "h", "i" >>
S_hello == << "h", "e", "l", "l", "o" >>
S_key == << "k", "1" >>

\* Constructor arguments: voice and language are optional, and so is every
\* callback. throwing names the caller's functions that throw when invoked;
\* none does unless a specification says so.
Config(p, v, l, cbs) ==
  [apiKey |-> Str(S_key), serverUrl |-> Undefined,
   prompt |-> p, voice |-> v, language |-> l, callbacks |-> cbs,
   throwing |-> {}]

\* TTSClient's constructor argument.
TTSConfig(key, url) == [apiKey |-> key, serverUrl |-> url]

\* The connection lifecycle is explored for each combination of a supplied
\* and a defaulted voice and language.
Configs ==
  {Config(Str(S_hi), Undefined, Undefined, CallbackNames),
   Config(Str(<<>>), VoiceStyle_M2, Language_SPANISH, {}),
   Config(Str(S_hi), VoiceStyle_M2, Undefined, {"onError"}),
   Config(Str(<<>>), Undefined, Language_SPANISH, CallbackNames \ {"onError"})}

\* Byte values of audio chunks: the ends and the middle of the range.
ByteValues == {0, 1, 255}

RECURSIVE ChunksOfLen(_)
ChunksOfLen(n) ==
  IF n = 0 THEN {<<>>}
  ELSE {Append(c, b) : c \in ChunksOfLen(n - 1), b \in ByteValues}

Chunks == UNION {ChunksOfLen(n) : n \in 0..MaxChunkLen}

\* Inbound message events.
BinaryData(b) == [kind |-> "binary", bytes |-> b]
TextData(v) == [kind |-> "text", text |-> [json |-> TRUE, value |-> v]]
NotJSON == [kind |-> "text", text |-> [json |-> FALSE]]
AudioMessage(b) ==
  TextData(Obj([type |-> Str(T_audio), data |-> Str(Base64Encode(b))]))

\* Texts that are not JSON, or JSON without a recognized type member.
Malformed ==
  {NotJSON, TextData(Null), TextData(Num(4200)), TextData(Arr(<<>>)),
   TextData(Str(T_error)), TextData(Bool(TRUE)),
   TextData(Obj([data |-> Str(S_hi)])),
   TextData(Obj([type |-> Str(S_hi), data |-> Str(S_hi)])),
   TextData(Obj([type |-> Num(100), data |-> Str(S_hi)])),
   TextData(Obj([type |-> Null, role |-> Str(T_user)]))}

TranscriptMessage(role, data) ==
  TextData(Obj([type |-> Str(T_transcript), role |-> role, data |-> data]))

\* Transcripts from the user, the agent, another role and no role.
Transcripts ==
  {TranscriptMessage(Str(T_user), Str(S_hello)),
   TranscriptMessage(Str(T_agent), Str(S_hi)),
   TranscriptMessage(Str(T_user), Str(<<>>)),
   TranscriptMessage(Str(S_hi), Str(S_hello)),
   TextData(Obj([type |-> Str(T_transcript), data |-> Str(S_hello)])),
   TextData(Obj([type |-> Str(T_transcript), role |-> Str(T_agent)]))}

\* Audio messages whose data is missing, falsy, or no base64 text.
BrokenAudio ==
  {TextData(Obj([type |-> Str(T_audio)])),
   TextData(Obj([type |-> Str(T_audio), data |-> Num(0)])),
   TextData(Obj([type |-> Str(T_audio), data |-> Str(<< "!" >>)])),
   TextData(Obj([type |-> Str(T_audio), data |-> Str(<< "A" >>)])),
   TextData(Obj([type |-> Str(T_audio), data |-> Bool(TRUE)]))}

\* The text frames the dispatch specification delivers.
InboundText ==
  Malformed \cup Transcripts
  \cup {AudioMessage(<<1>>), BinaryData(<<1>>),
        TextData(Obj([type |-> Str(T_status), data |-> Str(S_hi)])),
        TextData(Obj([type |-> Str(T_error), data |-> Str(S_hello)]))}

\* The audio the audio specification delivers: every chunk in both of its
\* representations, and the broken audio messages.
InboundAudio ==
  {BinaryData(b) : b \in Chunks} \cup {AudioMessage(b) : b \in Chunks}
  \cup BrokenAudio \cup {NotJSON}

\* The functions the caller registers through onAudio.
Listeners == {"L1", "L2"}

\* What the caller hands to sendAudio.
AudioInputs == {<<1, 255>>}

\* --------------------------------------------- the connection lifecycle
Init ==
  /\ config \in Configs
  /\ AUDIO_CONFIG = AUDIO_CONFIG_Shipped
  /\ apiKey = Construct(config).apiKey
  /\ serverUrl = Construct(config).serverUrl
  /\ ttsClient = TTSConstruct(TTSConfig(Str(S_key), Undefined))
  /\ prompt = Construct(config).prompt
  /\ voice = Construct(config).voice
  /\ language = Construct(config).language
  /\ ws = 0
  /\ isConnected = FALSE
  /\ audioListeners = <<>>
  /\ sockets = <<>>
  /\ promises = <<>>
  /\ calls = <<>>
  /\ raised = FALSE
  /\ last = Step("new", 0, Undefined)
  /\ tts = <<>>
  /\ log = NoLog

Next ==
  \/ connect
  \/ disconnect
  \/ \E audioData \in AudioInputs : sendAudio(audioData)
  \/ \E s \in DOMAIN sockets : onopen(s)
  \/ \E s \in DOMAIN sockets : onerror(s)
  \/ \E s \in DOMAIN sockets : onclose(s)

Spec == Init /\ [][Next]_vars

\* ------------------------------------------------------- inbound dispatch
\* The dispatch specification registers every, no and some callbacks.
DispatchConfigs ==
  {Config(Str(S_hi), Undefined, Undefined, cbs) :
     cbs \in {CallbackNames, {}, {"onAudio", "onTranscription"},
              {"onResponse", "onStatus", "onError"}}}

InitDispatch ==
  /\ config \in DispatchConfigs
  /\ AUDIO_CONFIG = AUDIO_CONFIG_Shipped
  /\ apiKey = Construct(config).apiKey
  /\ serverUrl = Construct(config).serverUrl
  /\ ttsClient = TTSConstruct(TTSConfig(Str(S_key), Undefined))
  /\ prompt = Construct(config).prompt
  /\ voice = Construct(config).voice
  /\ language = Construct(config).language
  /\ ws = 0
  /\ isConnected = FALSE
  /\ audioListeners = <<>>
  /\ sockets = <<>>
  /\ promises = <<>>
  /\ calls = <<>>
  /\ raised = FALSE
  /\ last = Step("new", 0, Undefined)
  /\ tts = <<>>
  /\ log = NoLog

NextDispatch ==
  \/ connect
  \/ \E s \in DOMAIN sockets : onopen(s)
  \/ \E s \in DOMAIN sockets : \E data \in InboundText : onmessage(s, data)

SpecDispatch == InitDispatch /\ [][NextDispatch]_vars

\* ------------------------------------------------------------ inbound audio
\* One connection, listeners registered at any time, audio in both forms.
NextAudio ==
  \/ sockets = <<>> /\ connect
  \/ \E callback \in Listeners : onAudio(callback)
  \/ \E s \in DOMAIN sockets : onopen(s)
  \/ \E s \in DOMAIN sockets : \E data \in InboundAudio : onmessage(s, data)

SpecAudio == InitDispatch /\ [][NextAudio]_vars

\* ------------------------------------------------------------------ TTSClient
TTSCallbackNames == {"onAudio", "onVisemes", "onError"}

\* if (options.cb) options.cb(arg)
InvokeOption(options, cb, arg) ==
  IF cb \in options.callbacks THEN << [cb |-> cb, arg |-> arg] >> ELSE <<>>

\* A synthesis request whose default speed is 1.
SynthesisRequest_UnitSpeed(options) ==
  JSONStringify(
    << <<"text", options.text>>,
       <<"voice", OrElse(options.voice, VoiceStyle_F1)>>,
       <<"lang", OrElse(options.language, Language_ENGLISH)>>,
       <<"speed", OrElse(options.speed, Num(100))>>,
       <<"steps", OrElse(options.steps, Num(24 * 100))>>,
       <<"visemes", OrElse(options.visemes, Bool(FALSE))>> >>)

\* The synthesis request: a missing or falsy option gets its default.
SynthesisRequest(options) ==
  JSONStringify(
    << <<"text", options.text>>,
       <<"voice", OrElse(options.voice, VoiceStyle_F1)>>,
       <<"lang", OrElse(options.language, Language_ENGLISH)>>,
       <<"speed", OrElse(options.speed, Num(105))>>,
       <<"steps", OrElse(options.steps, Num(24 * 100))>>,
       <<"visemes", OrElse(options.visemes, Bool(FALSE))>> >>)

\* A synthesize() that hands the request to the socket as soon as it is made.
synthesize_SendAtOnce(options) ==
  /\ Len(tts) < MaxCalls
  /\ tts' = Append(tts, [url |-> Url(ttsClient.serverUrl, ttsClient.apiKey),
                         options |-> options, readyState |-> "CONNECTING",
                         opened |-> FALSE,
                         sent |-> << SynthesisRequest(options) >>,
                         closeCalls |-> 0, promise |-> "pending"])
  /\ calls' = <<>>
  /\ raised' = FALSE
  /\ last' = Step("synthesize", Len(tts) + 1, Undefined)
  /\ UNCHANGED << AUDIO_CONFIG, apiKey, serverUrl, ttsClient, log, config, prompt, voice, language, ws, isConnected,
                  audioListeners, sockets, promises >>

\* synthesize(options): a new socket of the call's own, a pending completion.
\* No handler of the call calls close() on the socket.
synthesize(options) ==
  /\ Len(tts) < MaxCalls
  /\ tts' = Append(tts, [url |-> Url(ttsClient.serverUrl, ttsClient.apiKey),
                         options |-> options, readyState |-> "CONNECTING",
                         opened |-> FALSE, sent |-> <<>>, closeCalls |-> 0,
                         promise |-> "pending"])
  /\ calls' = <<>>
  /\ raised' = FALSE
  /\ last' = Step("synthesize", Len(tts) + 1, Undefined)
  /\ UNCHANGED << AUDIO_CONFIG, apiKey, serverUrl, ttsClient, log, config, prompt, voice, language, ws, isConnected,
                  audioListeners, sockets, promises >>

\* An onopen that resolves the completion once the request has been sent.
synthesize_onopen_Resolves(c) ==
  /\ tts[c].readyState = "CONNECTING"
  /\ tts' = [tts EXCEPT ![c].readyState = "OPEN", ![c].opened = TRUE,
                        ![c].sent = Append(@, SynthesisRequest(tts[c].options)),
                        ![c].promise = "resolved"]
  /\ calls' = <<>>
  /\ raised' = FALSE
  /\ last' = Step("tts.open", c, Undefined)
  /\ UNCHANGED << AUDIO_CONFIG, apiKey, serverUrl, ttsClient, log, config, prompt, voice,
                  language, ws, isConnected, audioListeners, sockets, promises >>

\* ws.onopen of call c: the request is sent on the call's socket.
synthesize_onopen(c) ==
  /\ tts[c].readyState = "CONNECTING"
  /\ tts' = [tts EXCEPT ![c].readyState = "OPEN", ![c].opened = TRUE,
                        ![c].sent = Append(@, SynthesisRequest(tts[c].options))]
  /\ calls' = <<>>
  /\ raised' = FALSE
  /\ last' = Step("tts.open", c, Undefined)
  /\ UNCHANGED << AUDIO_CONFIG, apiKey, serverUrl, ttsClient, log, config, prompt, voice, language, ws, isConnected,
                  audioListeners, sockets, promises >>

\* An onmessage that also decodes {type:'audio', data} text frames.
synthesize_onmessage_DecodesAudio(c, data) ==
  /\ tts[c].opened
  /\ tts[c].readyState \in {"OPEN", "CLOSING"}
  /\ calls' =
       IF data.kind = "binary"
       THEN InvokeOption(tts[c].options, "onAudio", Bytes(data.bytes))
       ELSE LET parsed == JSONParse(data.text) IN
            IF parsed.ok /\ parsed.value.t = "array"
            THEN InvokeOption(tts[c].options, "onVisemes", parsed.value)
            ELSE IF /\ parsed.ok
                    /\ Get(parsed.value, "type") = Str(T_audio)
                    /\ Truthy(Get(parsed.value, "data"))
                    /\ base64ToUint8Array(Get(parsed.value, "data")).ok
            THEN InvokeOption(tts[c].options, "onAudio",
                              Bytes(base64ToUint8Array(Get(parsed.value, "data")).bytes))
            ELSE <<>>
  /\ raised' = FALSE
  /\ last' = Step("tts.message", c, data)
  /\ LogHasRoom
  /\ log' = Record("tts", c, data, calls')
  /\ UNCHANGED << AUDIO_CONFIG, apiKey, serverUrl, ttsClient, config, prompt, voice, language, ws, isConnected,
                  audioListeners, sockets, promises, tts >>

\* An onmessage that hands every binary chunk to onAudio twice.
synthesize_onmessage_Twice(c, data) ==
  /\ tts[c].opened
  /\ tts[c].readyState \in {"OPEN", "CLOSING"}
  /\ calls' =
       IF data.kind = "binary"
       THEN InvokeOption(tts[c].options, "onAudio", Bytes(data.bytes))
            \o InvokeOption(tts[c].options, "onAudio", Bytes(data.bytes))
       ELSE LET parsed == JSONParse(data.text) IN
            IF parsed.ok /\ parsed.value.t = "array"
            THEN InvokeOption(tts[c].options, "onVisemes", parsed.value)
            ELSE <<>>
  /\ raised' = FALSE
  /\ last' = Step("tts.message", c, data)
  /\ LogHasRoom
  /\ log' = Record("tts", c, data, calls')
  /\ UNCHANGED << AUDIO_CONFIG, apiKey, serverUrl, ttsClient, config, prompt, voice, language, ws, isConnected,
                  audioListeners, sockets, promises, tts >>

\* An onmessage that forwards every text frame that parses to onVisemes.
synthesize_onmessage_AnyJSON(c, data) ==
  /\ tts[c].opened
  /\ tts[c].readyState \in {"OPEN", "CLOSING"}
  /\ calls' =
       IF data.kind = "binary"
       THEN InvokeOption(tts[c].options, "onAudio", Bytes(data.bytes))
       ELSE LET parsed == JSONParse(data.text) IN
            IF parsed.ok
            THEN InvokeOption(tts[c].options, "onVisemes", parsed.value)
            ELSE <<>>
  /\ raised' = FALSE
  /\ last' = Step("tts.message", c, data)
  /\ LogHasRoom
  /\ log' = Record("tts", c, data, calls')
  /\ UNCHANGED << AUDIO_CONFIG, apiKey, serverUrl, ttsClient, config, prompt, voice, language, ws, isConnected,
                  audioListeners, sockets, promises, tts >>

\* ws.onmessage of call c: binary data to onAudio, a JSON array to onVisemes.
synthesize_onmessage(c, data) ==
  /\ tts[c].opened
  /\ tts[c].readyState \in {"OPEN", "CLOSING"}
  /\ calls' =
       IF data.kind = "binary"
       THEN InvokeOption(tts[c].options, "onAudio", Bytes(data.bytes))
       ELSE LET parsed == JSONParse(data.text) IN
            IF parsed.ok /\ parsed.value.t = "array"
            THEN InvokeOption(tts[c].options, "onVisemes", parsed.value)
            ELSE <<>>
  /\ raised' = FALSE
  /\ last' = Step("tts.message", c, data)
  /\ LogHasRoom
  /\ log' = Record("tts", c, data, calls')
  /\ UNCHANGED << AUDIO_CONFIG, apiKey, serverUrl, ttsClient, config, prompt, voice, language, ws, isConnected,
                  audioListeners, sockets, promises, tts >>

\* An onerror that fails every synthesis in flight, not only its own.
synthesize_onerror_Shared(c) ==
  /\ tts[c].readyState \in {"CONNECTING", "OPEN"}
  /\ tts' = [d \in DOMAIN tts |->
               IF d = c
               THEN [tts[d] EXCEPT !.readyState = "CLOSING",
                                   !.promise = IF @ = "pending" THEN "rejected" ELSE @]
               ELSE [tts[d] EXCEPT !.promise = IF @ = "pending" THEN "rejected" ELSE @]]
  /\ calls' = InvokeOption(tts[c].options, "onError",
                           [t |-> "event", type |-> "error", sock |-> c])
  /\ raised' = FALSE
  /\ last' = Step("tts.error", c, Undefined)
  /\ UNCHANGED << AUDIO_CONFIG, apiKey, serverUrl, ttsClient, log, config, prompt, voice, language, ws, isConnected,
                  audioListeners, sockets, promises >>

\* An onerror that closes the socket after rejecting the completion.
synthesize_onerror_Closes(c) ==
  /\ tts[c].readyState \in {"CONNECTING", "OPEN"}
  /\ tts' = [tts EXCEPT ![c].readyState = "CLOSING",
                        ![c].closeCalls = @ + 1,
                        ![c].promise = IF @ = "pending" THEN "rejected" ELSE @]
  /\ calls' = InvokeOption(tts[c].options, "onError",
                           [t |-> "event", type |-> "error", sock |-> c])
  /\ raised' = FALSE
  /\ last' = Step("tts.error", c, Undefined)
  /\ UNCHANGED << AUDIO_CONFIG, apiKey, serverUrl, ttsClient, log, config, prompt, voice,
                  language, ws, isConnected, audioListeners, sockets, promises >>

\* ws.onerror of call c: onError, then reject.
synthesize_onerror(c) ==
  /\ tts[c].readyState \in {"CONNECTING", "OPEN"}
  /\ tts' = [tts EXCEPT ![c].readyState = "CLOSING",
                        ![c].promise = IF @ = "pending" THEN "rejected" ELSE @]
  /\ calls' = InvokeOption(tts[c].options, "onError",
                           [t |-> "event", type |-> "error", sock |-> c])
  /\ raised' = FALSE
  /\ last' = Step("tts.error", c, Undefined)
  /\ UNCHANGED << AUDIO_CONFIG, apiKey, serverUrl, ttsClient, log, config, prompt, voice, language, ws, isConnected,
                  audioListeners, sockets, promises >>

\* An onclose that rejects a call whose socket never opened.
synthesize_onclose_RejectUnopened(c) ==
  /\ tts[c].readyState # "CLOSED"
  /\ tts' = [tts EXCEPT ![c].readyState = "CLOSED",
                        ![c].promise = IF @ = "pending"
                                       THEN (IF tts[c].opened THEN "resolved"
                                             ELSE "rejected")
                                       ELSE @]
  /\ calls' = <<>>
  /\ raised' = FALSE
  /\ last' = Step("tts.close", c, Undefined)
  /\ UNCHANGED << AUDIO_CONFIG, apiKey, serverUrl, ttsClient, log, config, prompt, voice, language, ws, isConnected,
                  audioListeners, sockets, promises >>

\* An onclose whose resolve overrides an earlier rejection: the last signal wins.
synthesize_onclose_LastWins(c) ==
  /\ tts[c].readyState # "CLOSED"
  /\ tts' = [tts EXCEPT ![c].readyState = "CLOSED", ![c].promise = "resolved"]
  /\ calls' = <<>>
  /\ raised' = FALSE
  /\ last' = Step("tts.close", c, Undefined)
  /\ UNCHANGED << AUDIO_CONFIG, apiKey, serverUrl, ttsClient, log, config, prompt, voice,
                  language, ws, isConnected, audioListeners, sockets, promises >>

\* An onclose that withdraws a rejection: the completion is pending again.
synthesize_onclose_Withdraws(c) ==
  /\ tts[c].readyState # "CLOSED"
  /\ tts' = [tts EXCEPT ![c].readyState = "CLOSED",
                        ![c].promise = IF @ = "rejected" THEN "pending"
                                       ELSE "resolved"]
  /\ calls' = <<>>
  /\ raised' = FALSE
  /\ last' = Step("tts.close", c, Undefined)
  /\ UNCHANGED << AUDIO_CONFIG, apiKey, serverUrl, ttsClient, log, config, prompt, voice,
                  language, ws, isConnected, audioListeners, sockets, promises >>

\* ws.onclose of call c: resolve.
synthesize_onclose(c) ==
  /\ tts[c].readyState # "CLOSED"
  /\ tts' = [tts EXCEPT ![c].readyState = "CLOSED",
                        ![c].promise = IF @ = "pending" THEN "resolved" ELSE @]
  /\ calls' = <<>>
  /\ raised' = FALSE
  /\ last' = Step("tts.close", c, Undefined)
  /\ UNCHANGED << AUDIO_CONFIG, apiKey, serverUrl, ttsClient, log, config, prompt, voice, language, ws, isConnected,
                  audioListeners, sockets, promises >>

Options(text, v, l, speed, steps, visemes, cbs) ==
  [text |-> text, voice |-> v, language |-> l, speed |-> speed,
   steps |-> steps, visemes |-> visemes, callbacks |-> cbs]

\* synthesize() with only the text, for three texts, one of them empty.
TextOnlyOptions ==
  {Options(Str(text), Undefined, Undefined, Undefined, Undefined, Undefined,
           TTSCallbackNames) : text \in {S_hi, S_hello, <<>>}}

\* Every option supplied, and every option supplied with a falsy value.
SuppliedOptions ==
  {Options(Str(S_hi), VoiceStyle_M2, Language_SPANISH, Num(150), Num(5000),
           Bool(TRUE), {}),
   Options(Str(S_hi), VoiceStyle_F1, Language_ENGLISH, Num(0), Num(0),
           Bool(FALSE), TTSCallbackNames)}

\* What the server sends back to a synthesis call.
InboundTTS ==
  {BinaryData(<<1, 2>>), BinaryData(<<3, 4>>), NotJSON,
   TextData(Arr(<< Num(100) >>)), AudioMessage(<<1, 2>>)}

InitTTS ==
  /\ config = Config(Str(S_hi), Undefined, Undefined, {})
  /\ AUDIO_CONFIG = AUDIO_CONFIG_Shipped
  /\ apiKey = Construct(config).apiKey
  /\ serverUrl = Construct(config).serverUrl
  /\ ttsClient = TTSConstruct(TTSConfig(Str(S_key), Undefined))
  /\ prompt = Construct(config).prompt
  /\ voice = Construct(config).voice
  /\ language = Construct(config).language
  /\ ws = 0
  /\ isConnected = FALSE
  /\ audioListeners = <<>>
  /\ sockets = <<>>
  /\ promises = <<>>
  /\ calls = <<>>
  /\ raised = FALSE
  /\ last = Step("new", 0, Undefined)
  /\ tts = <<>>
  /\ log = NoLog

NextTTS ==
  \/ \E options \in TextOnlyOptions \cup SuppliedOptions : synthesize(options)
  \/ \E c \in DOMAIN tts : synthesize_onopen(c)
  \/ \E c \in DOMAIN tts : \E data \in InboundTTS : synthesize_onmessage(c, data)
  \/ \E c \in DOMAIN tts : synthesize_onerror(c)
  \/ \E c \in DOMAIN tts : synthesize_onclose(c)

SpecTTS == InitTTS /\ [][NextTTS]_vars

\* One synthesis session with its history kept: synthesize({text:'hi'}) with
\* and without callbacks, a server that sends chunks, viseme arrays, an empty
\* array, a JSON object, a JSON number and text that is no JSON.
StreamOptions ==
  {Options(Str(S_hi), Undefined, Undefined, Undefined, Undefined, Undefined,
           cbs) : cbs \in {TTSCallbackNames, {}}}

StreamFrames ==
  {BinaryData(<<1, 2>>), BinaryData(<<3, 4>>), TextData(Arr(<< Num(100) >>)),
   AudioMessage(<<1, 2>>), NotJSON, TextData(Num(4200)), TextData(Arr(<<>>))}

InitStream ==
  /\ config = Config(Str(S_hi), Undefined, Undefined, {})
  /\ AUDIO_CONFIG = AUDIO_CONFIG_Shipped
  /\ apiKey = Construct(config).apiKey
  /\ serverUrl = Construct(config).serverUrl
  /\ ttsClient = TTSConstruct(TTSConfig(Str(S_key), Undefined))
  /\ prompt = Construct(config).prompt
  /\ voice = Construct(config).voice
  /\ language = Construct(config).language
  /\ ws = 0
  /\ isConnected = FALSE
  /\ audioListeners = <<>>
  /\ sockets = <<>>
  /\ promises = <<>>
  /\ calls = <<>>
  /\ raised = FALSE
  /\ last = Step("new", 0, Undefined)
  /\ tts = <<>>
  /\ log = EmptyLog

NextStream ==
  \/ tts = <<>> /\ \E options \in StreamOptions : synthesize(options)
  \/ \E c \in DOMAIN tts : synthesize_onopen(c)
  \/ \E c \in DOMAIN tts : \E data \in StreamFrames : synthesize_onmessage(c, data)
  \/ \E c \in DOMAIN tts : synthesize_onerror(c)
  \/ \E c \in DOMAIN tts : synthesize_onclose(c)

SpecStream == InitStream /\ [][NextStream]_vars

\* One voice-agent connection and one synthesis session side by side, their
\* history kept: the caller sends audio while frames of every kind arrive.
ErrorMessage(data) == TextData(Obj([type |-> Str(T_error), data |-> data]))

OrderConfigs ==
  {Config(Str(S_hi), Undefined, Undefined, cbs) : cbs \in {CallbackNames, {}}}

OrderFrames ==
  {BinaryData(<<1>>), AudioMessage(<<255>>),
   TranscriptMessage(Str(T_agent), Str(S_hi)), ErrorMessage(Str(S_hello))}

OrderFramesTTS == {BinaryData(<<1, 2>>), TextData(Arr(<< Num(100) >>))}

InitOrder ==
  /\ config \in OrderConfigs
  /\ AUDIO_CONFIG = AUDIO_CONFIG_Shipped
  /\ apiKey = Construct(config).apiKey
  /\ serverUrl = Construct(config).serverUrl
  /\ ttsClient = TTSConstruct(TTSConfig(Str(S_key), Undefined))
  /\ prompt = Construct(config).prompt
  /\ voice = Construct(config).voice
  /\ language = Construct(config).language
  /\ ws = 0
  /\ isConnected = FALSE
  /\ audioListeners = <<>>
  /\ sockets = <<>>
  /\ promises = <<>>
  /\ calls = <<>>
  /\ raised = FALSE
  /\ last = Step("new", 0, Undefined)
  /\ tts = <<>>
  /\ log = EmptyLog

NextOrder ==
  \/ sockets = <<>> /\ connect
  \/ \E s \in DOMAIN sockets : onopen(s)
  \/ \E s \in DOMAIN sockets : \E data \in OrderFrames : onmessage(s, data)
  \/ \E audioData \in AudioInputs : sendAudio(audioData)
  \/ tts = <<>> /\ \E options \in StreamOptions : synthesize(options)
  \/ \E c \in DOMAIN tts : synthesize_onopen(c)
  \/ \E c \in DOMAIN tts : \E data \in OrderFramesTTS : synthesize_onmessage(c, data)

SpecOrder == InitOrder /\ [][NextOrder]_vars

\* ------------------------------------------------------------- the socket URL
\* Both clients constructed with the same key and server URL: a key or none,
\* no server URL, an empty one, one without and one with a query string.
S_plain == << "w", "s", ":", "/", "/", "h", "/", "a" >>
S_query == << "w", "s", ":", "/", "/", "h", "/", "a", "?", "x", "=", "1" >>

UrlKeys == {Str(S_key), Str(<<>>)}
UrlServers == {Undefined, Str(<<>>), Str(S_plain), Str(S_query)}

InitUrl ==
  \E key \in UrlKeys : \E url \in UrlServers :
    /\ config = [Config(Str(S_hi), Undefined, Undefined, {})
                   EXCEPT !.apiKey = key, !.serverUrl = url]
    /\ AUDIO_CONFIG = AUDIO_CONFIG_Shipped
    /\ apiKey = Construct(config).apiKey
    /\ serverUrl = Construct(config).serverUrl
    /\ ttsClient = TTSConstruct(TTSConfig(key, url))
    /\ prompt = Construct(config).prompt
    /\ voice = Construct(config).voice
    /\ language = Construct(config).language
    /\ ws = 0
    /\ isConnected = FALSE
    /\ audioListeners = <<>>
    /\ sockets = <<>>
    /\ promises = <<>>
    /\ calls = <<>>
    /\ raised = FALSE
    /\ last = Step("new", 0, Undefined)
    /\ tts = <<>>
    /\ log = NoLog

NextUrl ==
  \/ connect
  \/ \E s \in DOMAIN sockets : onopen(s)
  \/ \E options \in StreamOptions : synthesize(options)
  \/ \E c \in DOMAIN tts : synthesize_onopen(c)

SpecUrl == InitUrl /\ [][NextUrl]_vars

\* ------------------------------------------------------- sockets and calls
\* Both clients through every transport event, with MaxSockets sockets between
\* them: connect() and disconnect() on the voice agent, synthesize() on the
\* TTS client, and opens, frames, errors and closes from the transport.
InitRetry ==
  /\ config \in OrderConfigs
  /\ AUDIO_CONFIG = AUDIO_CONFIG_Shipped
  /\ apiKey = Construct(config).apiKey
  /\ serverUrl = Construct(config).serverUrl
  /\ ttsClient = TTSConstruct(TTSConfig(Str(S_key), Undefined))
  /\ prompt = Construct(config).prompt
  /\ voice = Construct(config).voice
  /\ language = Construct(config).language
  /\ ws = 0
  /\ isConnected = FALSE
  /\ audioListeners = <<>>
  /\ sockets = <<>>
  /\ promises = <<>>
  /\ calls = <<>>
  /\ raised = FALSE
  /\ last = Step("new", 0, Undefined)
  /\ tts = <<>>
  /\ log = NoLog

NextRetry ==
  \/ Len(sockets) + Len(tts) < MaxSockets /\ connect
  \/ disconnect
  \/ \E s \in DOMAIN sockets : onopen(s)
  \/ \E s \in DOMAIN sockets : \E data \in OrderFrames : onmessage(s, data)
  \/ \E s \in DOMAIN sockets : onerror(s)
  \/ \E s \in DOMAIN sockets : onclose(s)
  \/ Len(sockets) + Len(tts) < MaxSockets
       /\ \E options \in StreamOptions : synthesize(options)
  \/ \E c \in DOMAIN tts : synthesize_onopen(c)
  \/ \E c \in DOMAIN tts : \E data \in OrderFramesTTS : synthesize_onmessage(c, data)
  \/ \E c \in DOMAIN tts : synthesize_onerror(c)
  \/ \E c \in DOMAIN tts : synthesize_onclose(c)

SpecRetry == InitRetry /\ [][NextRetry]_vars

\* ------------------------------------------------------ parameter changes
\* A client constructed with {prompt:'hi'} whose caller assigns the public
\* fields at any time of the connection lifecycle.
Assignments ==
  {<<"prompt", Str(S_hello)>>, <<"voice", VoiceStyle_M2>>,
   <<"language", Language_SPANISH>>}

InitAssign ==
  /\ config = Config(Str(S_hi), Undefined, Undefined, {})
  /\ AUDIO_CONFIG = AUDIO_CONFIG_Shipped
  /\ apiKey = Construct(config).apiKey
  /\ serverUrl = Construct(config).serverUrl
  /\ ttsClient = TTSConstruct(TTSConfig(Str(S_key), Undefined))
  /\ prompt = Construct(config).prompt
  /\ voice = Construct(config).voice
  /\ language = Construct(config).language
  /\ ws = 0
  /\ isConnected = FALSE
  /\ audioListeners = <<>>
  /\ sockets = <<>>
  /\ promises = <<>>
  /\ calls = <<>>
  /\ raised = FALSE
  /\ last = Step("new", 0, Undefined)
  /\ tts = <<>>
  /\ log = NoLog

NextAssign ==
  \/ connect
  \/ disconnect
  \/ \E a \in Assignments : assign(a[1], a[2])
  \/ \E s \in DOMAIN sockets : onopen(s)
  \/ \E s \in DOMAIN sockets : onclose(s)

SpecAssign == InitAssign /\ [][NextAssign]_vars

\* ------------------------------------------------------ synthesis requests
\* One synthesize({text:'hi', ...}) call for each combination of an absent
\* and a supplied voice and language, of an absent, a zero and a non-zero
\* speed, of an absent, a false and a true visemes flag, and of steps absent,
\* 0, 5, 50, 51, 2.5 and -1.
RequestSteps ==
  {Undefined, Num(0), Num(500), Num(5000), Num(5100), Num(250), Num(-100)}

RequestOptions ==
  {Options(Str(S_hi), v, l, speed, steps, visemes, {}) :
     v \in {Undefined, VoiceStyle_M2}, l \in {Undefined, Language_SPANISH},
     speed \in {Undefined, Num(0), Num(150)}, steps \in RequestSteps,
     visemes \in {Undefined, Bool(FALSE), Bool(TRUE)}}

InitRequest ==
  /\ config = Config(Str(S_hi), Undefined, Undefined, {})
  /\ AUDIO_CONFIG = AUDIO_CONFIG_Shipped
  /\ apiKey = Construct(config).apiKey
  /\ serverUrl = Construct(config).serverUrl
  /\ ttsClient = TTSConstruct(TTSConfig(Str(S_key), Undefined))
  /\ prompt = Construct(config).prompt
  /\ voice = Construct(config).voice
  /\ language = Construct(config).language
  /\ ws = 0
  /\ isConnected = FALSE
  /\ audioListeners = <<>>
  /\ sockets = <<>>
  /\ promises = <<>>
  /\ calls = <<>>
  /\ raised = FALSE
  /\ last = Step("new", 0, Undefined)
  /\ tts = <<>>
  /\ log = NoLog

NextRequest ==
  \/ tts = <<>> /\ \E options \in RequestOptions : synthesize(options)
  \/ \E c \in DOMAIN tts : synthesize_onopen(c)
  \/ \E c \in DOMAIN tts : synthesize_onclose(c)

SpecRequest == InitRequest /\ [][NextRequest]_vars

\* ------------------------------------------------------ throwing callbacks
\* One connection of a client that registered every callback, some of which
\* throw: all of them, the audio callback, the first listener, the status and
\* error callbacks. The history of frames and calls is kept.
ThrowConfigs ==
  {[Config(Str(S_hi), Undefined, Undefined, CallbackNames) EXCEPT !.throwing = t] :
     t \in {CallbackNames, {"onAudio"}, {"L1"}, {"onStatus", "onError"}}}

StatusMessage(data) == TextData(Obj([type |-> Str(T_status), data |-> data]))

ThrowFrames ==
  {BinaryData(<<1>>), AudioMessage(<<255>>),
   TranscriptMessage(Str(T_user), Str(S_hello)),
   TranscriptMessage(Str(T_agent), Str(S_hi)),
   StatusMessage(Str(S_hi)), ErrorMessage(Str(S_hello))}

InitThrow ==
  /\ config \in ThrowConfigs
  /\ AUDIO_CONFIG = AUDIO_CONFIG_Shipped
  /\ apiKey = Construct(config).apiKey
  /\ serverUrl = Construct(config).serverUrl
  /\ ttsClient = TTSConstruct(TTSConfig(Str(S_key), Undefined))
  /\ prompt = Construct(config).prompt
  /\ voice = Construct(config).voice
  /\ language = Construct(config).language
  /\ ws = 0
  /\ isConnected = FALSE
  /\ audioListeners = <<>>
  /\ sockets = <<>>
  /\ promises = <<>>
  /\ calls = <<>>
  /\ raised = FALSE
  /\ last = Step("new", 0, Undefined)
  /\ tts = <<>>
  /\ log = EmptyLog

NextThrow ==
  \/ sockets = <<>> /\ connect
  \/ \E callback \in Listeners : sockets = <<>> /\ onAudio(callback)
  \/ \E s \in DOMAIN sockets : onopen(s)
  \/ \E s \in DOMAIN sockets : \E data \in ThrowFrames : onmessage(s, data)
  \/ \E s \in DOMAIN sockets : onerror(s)
  \/ \E s \in DOMAIN sockets : onclose(s)

SpecThrow == InitThrow /\ [][NextThrow]_vars

\* ------------------------------------------------------------- AUDIO_CONFIG
\* AUDIO_CONFIG is a plain object: a caller can assign SAMPLE_RATE and
\* CHUNK_DURATION_MS, and every read of CHUNK_SIZE runs the getter.
SampleRates == {8000, 11025, 16000, 22050, 24000, 44100, 48000}
ChunkDurations == {5, 10, 20, 30, 40, 60}

\* AUDIO_CONFIG.SAMPLE_RATE = rate
setSampleRate(rate) ==
  /\ AUDIO_CONFIG' = [AUDIO_CONFIG EXCEPT !.SAMPLE_RATE = rate]
  /\ calls' = <<>>
  /\ raised' = FALSE
  /\ last' = Step("SAMPLE_RATE", 0, Num(100 * rate))
  /\ UNCHANGED << config, apiKey, serverUrl, ttsClient, prompt, voice, language,
                  ws, isConnected, audioListeners, sockets, promises, tts, log >>

\* AUDIO_CONFIG.CHUNK_DURATION_MS = ms
setChunkDuration(ms) ==
  /\ AUDIO_CONFIG' = [AUDIO_CONFIG EXCEPT !.CHUNK_DURATION_MS = ms]
  /\ calls' = <<>>
  /\ raised' = FALSE
  /\ last' = Step("CHUNK_DURATION_MS", 0, Num(100 * ms))
  /\ UNCHANGED << config, apiKey, serverUrl, ttsClient, prompt, voice, language,
                  ws, isConnected, audioListeners, sockets, promises, tts, log >>

\* A read of AUDIO_CONFIG.CHUNK_SIZE: the value the getter returns.
readChunkSize ==
  /\ calls' = <<>>
  /\ raised' = FALSE
  /\ last' = Step("CHUNK_SIZE", 0, Num(100 * CHUNK_SIZE(AUDIO_CONFIG)))
  /\ UNCHANGED << AUDIO_CONFIG, config, apiKey, serverUrl, ttsClient, prompt,
                  voice, language, ws, isConnected, audioListeners, sockets,
                  promises, tts, log >>

NextChunk ==
  \/ \E rate \in SampleRates : setSampleRate(rate)
  \/ \E ms \in ChunkDurations : setChunkDuration(ms)
  \/ readChunkSize

SpecChunk == InitAssign /\ [][NextChunk]_vars

\* ------------------------------------------------------------------ claims
\* The configuration frames the constructor's argument calls for.
ExpectedConfig ==
  << [kind |-> "text",
      json |-> << <<"type", Str(T_prompt)>>, <<"data", config.prompt>> >>],
     [kind |-> "text",
      json |-> << <<"type", Str(T_voice)>>,
                  <<"data", IF config.voice = Undefined THEN VoiceStyle_F1
                            ELSE config.voice>> >>],
     [kind |-> "text",
      json |-> << <<"type", Str(T_language)>>,
                  <<"data", IF config.language = Undefined THEN Language_ENGLISH
                            ELSE config.language>> >>] >>

StartsWith(seq, prefix) ==
  Len(seq) >= Len(prefix) /\ SubSeq(seq, 1, Len(prefix)) = prefix

\* C1: when the open signal of the socket the client holds fires, exactly
\* three text frames are sent on it - prompt, voice, language, in that order,
\* carrying the constructor's prompt and the constructor's or the default
\* (F1, en) voice and language - and nothing, in particular no audio frame,
\* was sent on that socket before these three.
C1_ConfigPushOrder ==
  [][last'.op = "open" /\ ws = last'.sock
       => /\ sockets[ws].sent = <<>>
          /\ sockets'[ws].sent = ExpectedConfig]_vars

\* C1 witness: the open of the held socket has just pushed the prompt, the
\* default voice and a supplied language.
C1_Witness ==
  /\ last.op = "open"
  /\ ws = last.sock
  /\ config.voice = Undefined
  /\ config.language = Language_SPANISH
  /\ sockets[ws].sent = ExpectedConfig

\* The configuration has been sent on some socket of the client.
ConfigSentSomewhere ==
  \E s \in DOMAIN sockets :
    \E i \in 0..Len(sockets[s].sent) :
      StartsWith(SubSeq(sockets[s].sent, i + 1, Len(sockets[s].sent)),
                 ExpectedConfig)

\* C2: whenever the completion of a connect() is resolved, the open signal of
\* its socket has fired and the three configuration messages have been sent.
C2_ResolvedImpliesConfigured ==
  \A s \in DOMAIN sockets :
    promises[s].state = "resolved"
      => sockets[s].opened /\ ConfigSentSomewhere

\* The session is Active: the socket the client holds has had its open
\* signal, and neither its close event nor disconnect() has happened since.
Active ==
  /\ ws # 0
  /\ sockets[ws].opened
  /\ sockets[ws].readyState # "CLOSED"

\* C3: sendAudio(bytes) forwards the bytes as exactly one binary frame if and
\* only if the session is Active; otherwise it sends nothing; it never raises.
C3_SendAudioIffActive ==
  [][last'.op = "sendAudio"
       => /\ ~raised'
          /\ IF Active
             THEN sockets' = [sockets EXCEPT
                    ![ws].sent = Append(@, [kind |-> "binary",
                                            bytes |-> last'.arg.b])]
             ELSE sockets' = sockets]_vars

\* C5: disconnect() never raises; with no socket it changes nothing; with a
\* socket it calls close on it once and clears the handle; so close is
\* requested at most once per socket, however often disconnect() is called.
C5_DisconnectIdempotent ==
  /\ [](\A s \in DOMAIN sockets : sockets[s].closeCalls <= 1)
  /\ [][last'.op = "disconnect"
          => /\ ~raised'
             /\ ws' = 0
             /\ IF ws = 0 THEN sockets' = sockets
                ELSE sockets' = [sockets EXCEPT
                       ![ws].closeCalls = @ + 1,
                       ![ws].readyState =
                         IF @ \in {"CONNECTING", "OPEN"} THEN "CLOSING" ELSE @]]_vars

\* C5 witness: disconnect() was called with the handle already cleared by an
\* earlier disconnect() that closed the socket.
C5_Witness ==
  /\ last.op = "disconnect"
  /\ last.sock = 0
  /\ ws = 0
  /\ Len(sockets) = 1
  /\ sockets[1].closeCalls = 1

\* A disconnect() or a close event has happened on the instance.
Closed ==
  \E s \in DOMAIN sockets :
    sockets[s].closeCalls > 0 \/ sockets[s].readyState = "CLOSED"

ExpectedAudioCalls(b) ==
  (IF "onAudio" \in config.callbacks
   THEN << [cb |-> "onAudio", arg |-> [t |-> "bytes", b |-> b]] >> ELSE <<>>)
  \o [i \in 1..Len(audioListeners) |->
        [cb |-> "audioListener", id |-> audioListeners[i],
         arg |-> [t |-> "bytes", b |-> b]]]

\* C4: for every byte sequence, the empty one included, the chunk delivered
\* as a binary frame and the chunk delivered as {type:'audio', data:<base64>}
\* each invoke the audio callbacks exactly once with the same bytes.
C4_AudioChunkUniformity ==
  [][\A b \in Chunks :
       last'.op = "message" /\ last'.arg \in {BinaryData(b), AudioMessage(b)}
         => calls' = ExpectedAudioCalls(b)]_vars

\* C7: a text frame that is not JSON, or is JSON without a recognized type
\* member (null, a number, an array, an object of unknown type), invokes no
\* callback, raises nothing, and leaves the connection state and every
\* completion as they were.
C7_MalformedIgnored ==
  [][last'.op = "message" /\ last'.arg \in Malformed
       => /\ calls' = <<>>
          /\ ~raised'
          /\ UNCHANGED << ws, isConnected, sockets, promises, audioListeners >>]_vars

\* C7 witness: a malformed frame has been delivered to a client with every
\* callback registered while a completion is pending.
C7_Witness ==
  /\ last.op = "message"
  /\ last.arg \in Malformed
  /\ last.arg # NotJSON
  /\ config.callbacks = CallbackNames
  /\ \E s \in DOMAIN promises : promises[s].state = "pending"

IsTranscriptOf(data, role) ==
  /\ data.kind = "text"
  /\ data.text.json
  /\ data.text.value.t = "object"
  /\ DOMAIN data.text.value.f = {"type", "role", "data"}
  /\ data.text.value.f.type = Str(T_transcript)
  /\ data.text.value.f.role = Str(role)

\* C8: a transcript of role 'user' invokes the transcription callback once
\* with the message data and nothing else; a transcript of role 'agent'
\* invokes the response callback once with the message data and nothing else.
C8_TranscriptRouting ==
  [][last'.op = "message"
       => /\ IsTranscriptOf(last'.arg, T_user)
               => calls' = IF "onTranscription" \in config.callbacks
                           THEN << [cb |-> "onTranscription",
                                    arg |-> last'.arg.text.value.f.data] >>
                           ELSE <<>>
          /\ IsTranscriptOf(last'.arg, T_agent)
               => calls' = IF "onResponse" \in config.callbacks
                           THEN << [cb |-> "onResponse",
                                    arg |-> last'.arg.text.value.f.data] >>
                           ELSE <<>>]_vars

\* C8 witness: the user's transcript "hello" reached the transcription
\* callback, once, on a client that also registered the response callback.
C8_Witness ==
  /\ last.op = "message"
  /\ IsTranscriptOf(last.arg, T_user)
  /\ config.callbacks = CallbackNames
  /\ calls = << [cb |-> "onTranscription", arg |-> Str(S_hello)] >>

ListenerCalls(cs) == SelectSeq(cs, LAMBDA c : c.cb = "audioListener")

\* The chunk an inbound message carries: a binary frame's bytes, or the
\* decoded data of an audio message that has data.
CarriesChunk(data, b) ==
  \/ data = BinaryData(b)
  \/ b # <<>> /\ data = AudioMessage(b)

\* C9: each chunk is delivered once to every listener registered before it
\* arrives, in registration order; registering a listener delivers nothing
\* to it, and no other step invokes a listener.
C9_ListenersInOrder ==
  [][/\ \A b \in Chunks :
          last'.op = "message" /\ CarriesChunk(last'.arg, b)
            => ListenerCalls(calls') =
                 [i \in 1..Len(audioListeners) |->
                    [cb |-> "audioListener", id |-> audioListeners[i],
                     arg |-> [t |-> "bytes", b |-> b]]]
     /\ last'.op = "onAudio"
          => /\ calls' = <<>>
             /\ Len(audioListeners') = Len(audioListeners) + 1
             /\ SubSeq(audioListeners', 1, Len(audioListeners)) = audioListeners
     /\ last'.op # "message" => ListenerCalls(calls') = <<>>]_vars

\* C9 witness: two listeners, registered L2 then L1, have each received the
\* chunk 1,255 once, L2 first.
C9_Witness ==
  /\ last.op = "message"
  /\ audioListeners = << "L2", "L1" >>
  /\ ListenerCalls(calls) =
       << [cb |-> "audioListener", id |-> "L2", arg |-> [t |-> "bytes", b |-> <<1, 255>>]],
          [cb |-> "audioListener", id |-> "L1", arg |-> [t |-> "bytes", b |-> <<1, 255>>]] >>

\* C10: a synthesize() call given only the text sends, once its socket is
\* open, the single frame {text, voice:'F1', lang:'en', speed:1.05, steps:24,
\* visemes:false}, whatever the text, and nothing before the open.
C10_DefaultSubstitution ==
  \A c \in DOMAIN tts :
    tts[c].options \in TextOnlyOptions
      => tts[c].sent =
           IF tts[c].opened
           THEN << [kind |-> "text",
                    json |-> << <<"text", tts[c].options.text>>,
                                <<"voice", Str(<< "F", "1" >>)>>,
                                <<"lang", Str(<< "e", "n" >>)>>,
                                <<"speed", Num(105)>>,
                                <<"steps", Num(2400)>>,
                                <<"visemes", Bool(FALSE)>> >>] >>
           ELSE <<>>

\* C10 witness: a call given only the empty text has sent its request.
C10_Witness ==
  \E c \in DOMAIN tts :
    /\ tts[c].options \in TextOnlyOptions
    /\ tts[c].options.text = Str(<<>>)
    /\ Len(tts[c].sent) = 1

\* The member names of a JSON text frame, in order.
MemberNames(frame) == [i \in DOMAIN frame.json |-> frame.json[i][1]]

\* C11: a synthesize() call has sent nothing until its socket's open signal
\* has fired, and from then on, through every later message, error and
\* close, exactly one frame: the JSON synthesis request carrying its text.
C11_ExactlyOneRequest ==
  \A c \in DOMAIN tts :
    IF tts[c].opened
    THEN /\ Len(tts[c].sent) = 1
         /\ tts[c].sent[1].kind = "text"
         /\ MemberNames(tts[c].sent[1]) =
              << "text", "voice", "lang", "speed", "steps", "visemes" >>
         /\ tts[c].sent[1].json[1][2] = tts[c].options.text
    ELSE tts[c].sent = <<>>

\* C11 witness: one call closed without ever opening and sent nothing, the
\* other opened, heard from the server, closed, and sent one frame.
C11_Witness ==
  /\ Len(tts) = 2
  /\ tts[1].readyState = "CLOSED" /\ ~tts[1].opened /\ tts[1].sent = <<>>
  /\ tts[2].readyState = "CLOSED" /\ tts[2].opened /\ Len(tts[2].sent) = 1
  /\ last.op = "tts.close"

\* What the history holds for synthesis call c: the bytes of the binary
\* frames in arrival order, and the arguments onAudio was invoked with.
ChunksArrived(c) ==
  LET w == SelectSeq(log.wire, LAMBDA x : x.client = "tts" /\ x.sock = c
                                           /\ x.data.kind = "binary")
  IN [i \in DOMAIN w |-> w[i].data.bytes]
AudioHeard(c) ==
  LET h == SelectSeq(log.heard, LAMBDA x : x.client = "tts" /\ x.sock = c
                                            /\ x.call.cb = "onAudio")
  IN [i \in DOMAIN h |-> h[i].call.arg]

\* C12: in a synthesis session the audio callback has been invoked once per
\* binary chunk, with that chunk's bytes, in arrival order; the close signal
\* resolves the pending completion, and once the completion is resolved no
\* further chunk arrives, so it resolves only after the last delivery.
C12_ChunksThenResolve ==
  /\ [](\A c \in DOMAIN tts :
          /\ "onAudio" \in tts[c].options.callbacks
               => AudioHeard(c) = [i \in DOMAIN ChunksArrived(c) |->
                                     [t |-> "bytes", b |-> ChunksArrived(c)[i]]]
          /\ tts[c].promise = "resolved" => tts[c].readyState = "CLOSED")
  /\ [][/\ \A c \in DOMAIN tts : tts[c].promise = "resolved" => log' = log
        /\ last'.op = "tts.close" /\ tts[last'.sock].promise = "pending"
             => tts'[last'.sock].promise = "resolved"]_vars

\* C12 witness: the server sent 1,2 then 3,4 and closed; onAudio ran twice
\* with those bytes in that order and the completion is resolved.
C12_Witness ==
  /\ Len(tts) = 1
  /\ tts[1].promise = "resolved"
  /\ ChunksArrived(1) = << <<1, 2>>, <<3, 4>> >>
  /\ Len(log.wire) = 2
  /\ AudioHeard(1) = << [t |-> "bytes", b |-> <<1, 2>>],
                        [t |-> "bytes", b |-> <<3, 4>>] >>

\* C13: the close signal of a synthesis call resolves its completion when it
\* is still pending, whether or not the socket ever opened or a chunk ever
\* arrived; an error signal rejects a pending completion; a settled
\* completion never changes.
C13_CloseResolvesErrorRejects ==
  [][/\ last'.op = "tts.close" /\ tts[last'.sock].promise = "pending"
          => tts'[last'.sock].promise = "resolved"
     /\ last'.op = "tts.error" /\ tts[last'.sock].promise = "pending"
          => tts'[last'.sock].promise = "rejected"
     /\ \A c \in DOMAIN tts :
          tts[c].promise # "pending" => tts'[c].promise = tts[c].promise]_vars

\* C13 witness: one call was closed before it opened and is resolved; the
\* other got an error before it opened, is rejected, and stayed rejected
\* through its close.
C13_Witness ==
  /\ Len(tts) = 2
  /\ ~tts[1].opened /\ tts[1].readyState = "CLOSED" /\ tts[1].promise = "resolved"
  /\ ~tts[2].opened /\ tts[2].readyState = "CLOSED" /\ tts[2].promise = "rejected"

\* C14: once the transport of a connect() or of a synthesize() has closed,
\* its completion is settled. No event of a closed socket follows its close
\* event, so a completion still pending then is pending for ever.
C14_ClosedImpliesSettled ==
  /\ \A s \in DOMAIN sockets :
       sockets[s].readyState = "CLOSED" => promises[s].state # "pending"
  /\ \A c \in DOMAIN tts :
       tts[c].readyState = "CLOSED" => tts[c].promise # "pending"

\* C15: an error signal on a socket that has not opened invokes the error
\* callback, when one is registered, with that error, and rejects the
\* pending completion of that connect() or synthesize() with the same
\* error; a rejected completion stays rejected.
C15_ErrorBeforeOpenRejects ==
  [][/\ last'.op = "error" /\ ~sockets[last'.sock].opened
          => /\ calls' = IF "onError" \in config.callbacks
                         THEN << [cb |-> "onError",
                                  arg |-> [t |-> "event", type |-> "error",
                                           sock |-> last'.sock]] >>
                         ELSE <<>>
             /\ promises'[last'.sock] =
                  [state |-> "rejected",
                   value |-> [t |-> "event", type |-> "error",
                              sock |-> last'.sock]]
     /\ last'.op = "tts.error" /\ ~tts[last'.sock].opened
          => /\ calls' = IF "onError" \in tts[last'.sock].options.callbacks
                         THEN << [cb |-> "onError",
                                  arg |-> [t |-> "event", type |-> "error",
                                           sock |-> last'.sock]] >>
                         ELSE <<>>
             /\ tts'[last'.sock].promise = "rejected"
     /\ \A s \in DOMAIN promises :
          promises[s].state = "rejected" => promises'[s] = promises[s]
     /\ \A c \in DOMAIN tts :
          tts[c].promise = "rejected" => tts'[c].promise = "rejected"]_vars

\* An inbound frame is a well-formed {type:'error', data} message.
IsErrorMessage(data) ==
  /\ data.kind = "text"
  /\ data.text.json
  /\ data.text.value.t = "object"
  /\ DOMAIN data.text.value.f = {"type", "data"}
  /\ data.text.value.f.type = Str(T_error)

\* The server has reported an error on this connection.
ErrorReported ==
  \E i \in DOMAIN log.wire :
    log.wire[i].client = "agent" /\ IsErrorMessage(log.wire[i].data)

\* C16: a {type:'error', data} message invokes the error callback, when
\* registered, once with data and invokes nothing else; the step leaves the
\* socket, the connected flag and every completion as they were, and a
\* sendAudio that follows is forwarded as a binary frame.
C16_ServerErrorAdvisory ==
  [][/\ last'.op = "message" /\ IsErrorMessage(last'.arg)
          => /\ calls' = IF "onError" \in config.callbacks
                         THEN << [cb |-> "onError",
                                  arg |-> last'.arg.text.value.f.data] >>
                         ELSE <<>>
             /\ ~raised'
             /\ UNCHANGED << ws, isConnected, sockets, promises, tts >>
     /\ last'.op = "sendAudio" /\ ErrorReported
          => /\ ~raised'
             /\ sockets'[ws].sent =
                  Append(sockets[ws].sent,
                         [kind |-> "binary", bytes |-> last'.arg.b])]_vars

\* C16 witness: with a synthesize() completion pending, the server reported
\* an error, the error callback got its data, and the audio sent next was
\* forwarded on the open socket.
C16_Witness ==
  /\ last.op = "sendAudio"
  /\ Len(log.wire) = 1
  /\ IsErrorMessage(log.wire[1].data)
  /\ log.heard = << [client |-> "agent", sock |-> 1,
                     call |-> [cb |-> "onError", arg |-> Str(S_hello)]] >>
  /\ sockets[1].readyState = "OPEN"
  /\ sockets[1].sent[Len(sockets[1].sent)] = [kind |-> "binary", bytes |-> <<1, 255>>]
  /\ promises[1].state = "resolved"
  /\ Len(tts) = 1 /\ tts[1].promise = "pending"

\* The callbacks the handler of one recorded frame invokes, as recorded.
DispatchOf(w) ==
  LET cs == IF w.client = "agent"
            THEN (IF w.data.kind = "binary"
                  THEN handleBinaryMessage(w.data.bytes)
                  ELSE handleTextMessage(w.data.text))
            ELSE (IF w.data.kind = "binary"
                  THEN InvokeOption(tts[w.sock].options, "onAudio",
                                    Bytes(w.data.bytes))
                  ELSE IF w.data.text.json /\ w.data.text.value.t = "array"
                  THEN InvokeOption(tts[w.sock].options, "onVisemes",
                                    w.data.text.value)
                  ELSE <<>>)
  IN [i \in DOMAIN cs |-> [client |-> w.client, sock |-> w.sock, call |-> cs[i]]]

\* The callbacks of the frames of a wire, frame after frame.
RECURSIVE InArrivalOrder(_)
InArrivalOrder(wire) ==
  IF wire = <<>> THEN <<>>
  ELSE InArrivalOrder(SubSeq(wire, 1, Len(wire) - 1)) \o DispatchOf(wire[Len(wire)])

RECURSIVE PushesUpTo(_, _)
PushesUpTo(socks, n) ==
  IF n = 0 THEN 0
  ELSE PushesUpTo(socks, n - 1)
       + Len(SelectSeq(socks[n].sent,
                       LAMBDA f : /\ f.kind = "text"
                                  /\ f.json[1] = <<"type", Str(T_prompt)>>))

\* The number of configuration pushes so far: prompt messages handed to any
\* socket of the instance.
Pushes == PushesUpTo(sockets, Len(sockets))

StreamChunks == {<<1, 2>>, <<3, 4>>}

\* C20 as claimed: in a synthesis session a chunk invokes the call's audio
\* callback once with its bytes, whether it arrives as a binary frame or as
\* {type:'audio', data:<base64>}.
C20_BothRepresentations ==
  [][\A b \in StreamChunks :
       /\ last'.op = "tts.message"
       /\ last'.arg \in {BinaryData(b), AudioMessage(b)}
       /\ "onAudio" \in tts[last'.sock].options.callbacks
       => calls' = << [cb |-> "onAudio", arg |-> [t |-> "bytes", b |-> b]] >>]_vars

\* C20 amended: in a synthesis session only the binary frame reaches the
\* audio callback, once, with its bytes; the same chunk sent as
\* {type:'audio', data:<base64>} invokes no callback at all.
C20_BinaryOnly ==
  [][\A b \in StreamChunks :
       /\ last'.op = "tts.message" /\ last'.arg = BinaryData(b)
            => calls' = IF "onAudio" \in tts[last'.sock].options.callbacks
                        THEN << [cb |-> "onAudio",
                                 arg |-> [t |-> "bytes", b |-> b]] >>
                        ELSE <<>>
       /\ last'.op = "tts.message" /\ last'.arg = AudioMessage(b)
            => calls' = <<>>]_vars

\* C20 witness: a call given every callback received the chunk 1,2 as a
\* binary frame, which reached onAudio, and then as an audio message, which
\* reached nothing.
C20_Witness ==
  /\ last.op = "tts.message"
  /\ last.arg = AudioMessage(<<1, 2>>)
  /\ tts[last.sock].options.callbacks = TTSCallbackNames
  /\ calls = <<>>
  /\ Len(log.wire) = 2
  /\ log.wire[1].data = BinaryData(<<1, 2>>)
  /\ Len(log.heard) = 1
  /\ log.heard[1].call = [cb |-> "onAudio", arg |-> [t |-> "bytes", b |-> <<1, 2>>]]

\* C21: in a synthesis session a text frame that parses as a JSON array is
\* handed to onVisemes exactly once, with that array, and never to onAudio;
\* every other text frame (no JSON, a JSON object, a JSON scalar) invokes no
\* callback; no text frame settles the completion or changes the session.
C21_TextFrames ==
  [][\A c \in DOMAIN tts : \A data \in StreamFrames :
       (synthesize_onmessage(c, data) /\ data.kind = "text")
       => /\ tts' = tts
          /\ IF data.text.json /\ data.text.value.t = "array"
             THEN calls' = IF "onVisemes" \in tts[c].options.callbacks
                           THEN << [cb |-> "onVisemes", arg |-> data.text.value] >>
                           ELSE <<>>
             ELSE calls' = <<>>]_vars

\* A viseme array reached onVisemes of a pending session, and text that is no
\* JSON, an object and a number had been taken in silence before it.
C21_Witness ==
  /\ Len(tts) = 1
  /\ tts[1].promise = "pending"
  /\ Len(log.wire) = 3
  /\ log.wire[1].data \in {NotJSON, TextData(Num(4200))}
  /\ log.wire[2].data = AudioMessage(<<1, 2>>)
  /\ log.wire[3].data = TextData(Arr(<< Num(100) >>))
  /\ Len(log.heard) = 1
  /\ log.heard[1].call = [cb |-> "onVisemes", arg |-> Arr(<< Num(100) >>)]
  /\ calls = << [cb |-> "onVisemes", arg |-> Arr(<< Num(100) >>)] >>

\* C22: with a non-empty apiKey, connect() and synthesize() open their socket
\* at the stored serverUrl followed by '?api_key=<apiKey>' when the serverUrl
\* has no '?', and by '&api_key=<apiKey>' when it has one; the parameter is
\* appended once per call, and no call changes the stored serverUrl.
WithKey(server, key) ==
  server \o (IF \E i \in DOMAIN server : server[i] = "?"
             THEN << "&" >> ELSE << "?" >>)
         \o << "a", "p", "i", "_", "k", "e", "y", "=" >> \o key

C22_QueryAuth ==
  /\ [](/\ apiKey.s # <<>> =>
             \A s \in DOMAIN sockets :
               sockets[s].url = Str(WithKey(serverUrl.s, apiKey.s))
        /\ ttsClient.apiKey.s # <<>> =>
             \A c \in DOMAIN tts :
               tts[c].url = Str(WithKey(ttsClient.serverUrl.s, ttsClient.apiKey.s)))
  /\ [][/\ serverUrl' = serverUrl
        /\ apiKey' = apiKey
        /\ ttsClient' = ttsClient]_vars

\* Two connect() calls and a synthesize() on clients whose server URL has a
\* query string: each socket's URL is the stored URL, '&api_key=' and the key.
C22_Witness ==
  /\ apiKey = Str(S_key)
  /\ serverUrl = Str(S_query)
  /\ ttsClient.serverUrl = Str(S_query)
  /\ Len(sockets) = 2
  /\ sockets[1].opened
  /\ sockets[2].url = sockets[1].url
  /\ sockets[2].url = Str(S_query \o << "&", "a", "p", "i", "_", "k", "e", "y", "=" >> \o S_key)
  /\ Len(tts) = 1
  /\ tts[1].url = sockets[2].url

\* C23: the clients never reconnect or retry: every connect() and every
\* synthesize() creates exactly one fresh socket and no other step creates
\* one, so the sockets ever created are as many as those calls; an error, a
\* close or a message from the transport sends nothing on any socket.
FreshSocket(sock) ==
  /\ sock.readyState = "CONNECTING"
  /\ ~sock.opened
  /\ sock.sent = <<>>

TransportEvents ==
  {"error", "close", "message", "tts.error", "tts.close", "tts.message"}

C23_NoRetry ==
  [][/\ last'.op = "connect" =>
          /\ Len(sockets') = Len(sockets) + 1
          /\ SubSeq(sockets', 1, Len(sockets)) = sockets
          /\ FreshSocket(sockets'[Len(sockets')])
          /\ tts' = tts
     /\ last'.op = "synthesize" =>
          /\ Len(tts') = Len(tts) + 1
          /\ SubSeq(tts', 1, Len(tts)) = tts
          /\ FreshSocket(tts'[Len(tts')])
          /\ sockets' = sockets
     /\ last'.op \notin {"connect", "synthesize"} =>
          /\ Len(sockets') = Len(sockets)
          /\ Len(tts') = Len(tts)
     /\ last'.op \in TransportEvents =>
          /\ \A s \in DOMAIN sockets : sockets'[s].sent = sockets[s].sent
          /\ \A c \in DOMAIN tts : tts'[c].sent = tts[c].sent]_vars

\* A voice connection and a synthesis both failed after their open and were
\* closed: still the one socket per call, each with its one first push.
C23_Witness ==
  /\ Len(sockets) = 1
  /\ sockets[1].opened
  /\ sockets[1].readyState = "CLOSED"
  /\ Len(sockets[1].sent) = 3
  /\ Len(tts) = 1
  /\ tts[1].readyState = "CLOSED"
  /\ tts[1].promise = "rejected"
  /\ Len(tts[1].sent) = 1
  /\ last.op = "close"

\* The control message of one field, and the three of a configuration push.
ControlMessage(field, value) ==
  [kind |-> "text",
   json |-> << <<"type", Str(CASE field = "prompt" -> T_prompt
                               [] field = "voice" -> T_voice
                               [] field = "language" -> T_language)>>,
               <<"data", value>> >>]

ConfigOf(p, v, l) ==
  << ControlMessage("prompt", p), ControlMessage("voice", v),
     ControlMessage("language", l) >>

\* C24 as stated: when the prompt, voice or language of a connected client is
\* changed, the control message of that field is sent again with the new value.
C24_ResentOnChange ==
  [][\A a \in Assignments :
       (/\ assign(a[1], a[2])
        /\ ws # 0
        /\ isConnected
        /\ sockets[ws].readyState = "OPEN")
       => sockets'[ws].sent = Append(sockets[ws].sent, ControlMessage(a[1], a[2]))]_vars

\* C24 amended: changing the prompt, voice or language sends nothing, on a
\* connected client or on any other; the fields are read by the configuration
\* push of an open signal only, which sends the values they hold at that time
\* on the held socket.
C24_SentOnOpenOnly ==
  [][/\ last'.op = "assign" => sockets' = sockets /\ isConnected' = isConnected
     /\ (last'.op = "open" /\ ws # 0 /\ ~raised')
          => sockets'[ws].sent = sockets[ws].sent \o ConfigOf(prompt, voice, language)]_vars

\* The voice was changed after the first socket's push and reached the server
\* with the second socket's push only; the language has just been changed on
\* the connected client and nothing was sent for it.
C24_Witness ==
  /\ last.op = "assign"
  /\ Len(sockets) = 2
  /\ ws = 2
  /\ isConnected
  /\ sockets[2].readyState = "OPEN"
  /\ sockets[1].sent = ConfigOf(Str(S_hi), VoiceStyle_F1, Language_ENGLISH)
  /\ sockets[2].sent = ConfigOf(Str(S_hi), VoiceStyle_M2, Language_ENGLISH)
  /\ voice = VoiceStyle_M2
  /\ language = Language_SPANISH

\* C25: the first terminal signal of a synthesis call decides its completion.
\* Before any signal it is pending; an error that fires before the close
\* rejects it, chunks delivered or not; a close that fires before any error
\* resolves it; the close that follows an error leaves it rejected, and once
\* the socket has closed the outcome never changes.
C25_FirstSignalDecides ==
  /\ [](\A c \in DOMAIN tts :
          /\ tts[c].readyState \in {"CONNECTING", "OPEN"} => tts[c].promise = "pending"
          /\ tts[c].readyState = "CLOSING" => tts[c].promise = "rejected"
          /\ tts[c].readyState = "CLOSED" => tts[c].promise \in {"resolved", "rejected"})
  /\ [][\A c \in DOMAIN tts :
          /\ (tts[c].readyState = "CLOSING" /\ tts'[c].readyState = "CLOSED")
               => tts'[c].promise = "rejected"
          /\ (tts[c].readyState \in {"CONNECTING", "OPEN"}
              /\ tts'[c].readyState = "CLOSED")
               => tts'[c].promise = "resolved"
          /\ tts[c].readyState = "CLOSED" => tts'[c] = tts[c]]_vars

\* Two chunks reached the audio callback, then the error fired and then the
\* close: the completion is rejected.
C25_Witness ==
  /\ Len(tts) = 1
  /\ Len(AudioHeard(1)) = 2
  /\ last.op = "tts.close"
  /\ tts[1].readyState = "CLOSED"
  /\ tts[1].promise = "rejected"

\* C26: an error signal of a socket that has opened invokes the error
\* callback, when one is registered, and nothing more: the handle and the
\* connected flag stay, a resolved connect() completion stays resolved, and
\* nothing is sent. As long as no close signal has fired and disconnect() was
\* not called, sendAudio still hands each chunk to the held socket.
C26_ErrorAfterOpen ==
  [][/\ (last'.op = "error" /\ sockets[last'.sock].opened)
          => /\ calls' = IF "onError" \in config.callbacks
                         THEN << [cb |-> "onError", arg |-> ErrorEvent(last'.sock)] >>
                         ELSE <<>>
             /\ ws' = ws
             /\ isConnected' = isConnected
             /\ \A s \in DOMAIN promises :
                  promises[s].state = "resolved" => promises'[s] = promises[s]
             /\ \A s \in DOMAIN sockets : sockets'[s].sent = sockets[s].sent
     /\ (/\ last'.op = "sendAudio"
         /\ ws # 0
         /\ sockets[ws].opened
         /\ sockets[ws].readyState = "CLOSING"
         /\ sockets[ws].closeCalls = 0
         /\ \A s \in DOMAIN sockets : sockets[s].readyState # "CLOSED")
          => /\ ~raised'
             /\ sockets' = [sockets EXCEPT
                   ![ws].sent = Append(@, [kind |-> "binary",
                                           bytes |-> last'.arg.b])]]_vars

\* The held socket opened, connect() resolved, the error callback heard a
\* transport error, and the chunk passed to sendAudio after it went out.
C26_Witness ==
  /\ last.op = "sendAudio"
  /\ "onError" \in config.callbacks
  /\ Len(sockets) = 1
  /\ ws = 1
  /\ isConnected
  /\ sockets[1].readyState = "CLOSING"
  /\ sockets[1].closeCalls = 0
  /\ promises[1].state = "resolved"
  /\ Len(sockets[1].sent) = 4
  /\ sockets[1].sent[4] = [kind |-> "binary", bytes |-> <<1, 255>>]

\* The value of member name in the request an opened call has sent.
RequestMember(c, name) ==
  LET json == tts[c].sent[1].json
  IN json[CHOOSE i \in DOMAIN json : json[i][1] = name][2]

Supplied(value, default) == IF value = Undefined THEN default ELSE value

\* C27: in the synthesis request a default stands for a field if and only if
\* the caller did not supply it: every supplied voice, language, speed, steps
\* and visemes, 0 and false included, is in the request unchanged, and F1,
\* en, 1.05, 24 and false stand for the fields that were not supplied.
C27_DefaultIffNotSupplied ==
  \A c \in DOMAIN tts :
    tts[c].opened
      => /\ RequestMember(c, "voice") = Supplied(tts[c].options.voice, Str(<< "F", "1" >>))
         /\ RequestMember(c, "lang") = Supplied(tts[c].options.language, Str(<< "e", "n" >>))
         /\ RequestMember(c, "speed") = Supplied(tts[c].options.speed, Num(105))
         /\ RequestMember(c, "steps") = Supplied(tts[c].options.steps, Num(2400))
         /\ RequestMember(c, "visemes") = Supplied(tts[c].options.visemes, Bool(FALSE))

\* C28: the steps member of every synthesis request sent is an integer from
\* 1 to 50, whatever steps the caller passed.
C28_StepsInRange ==
  \A c \in DOMAIN tts :
    tts[c].opened
      => /\ RequestMember(c, "steps").t = "number"
         /\ RequestMember(c, "steps").h % 100 = 0
         /\ RequestMember(c, "steps").h \in 100..5000

\* C29: whatever the interleaving of connect(), disconnect(), sendAudio() and
\* transport events, a frame is only ever sent on a socket whose own open
\* signal has fired and whose close signal has not, and the configuration
\* that a socket's open triggers is sent on that socket and on no other.
C29_FramesOnOwnOpenSocket ==
  [][\A s \in DOMAIN sockets :
       sockets'[s].sent # sockets[s].sent
         => /\ sockets'[s].opened
            /\ sockets'[s].readyState # "CLOSED"
            /\ last'.op = "open" => s = last'.sock]_vars

\* C30: a close or an open signal of a socket the client no longer holds does
\* not change whether audio is forwarded: whenever the held socket has opened
\* and is open, sendAudio hands the chunk to it as one binary frame.
C30_StaleSignalsHarmless ==
  [][(/\ last'.op = "sendAudio"
      /\ ws # 0
      /\ sockets[ws].opened
      /\ sockets[ws].readyState = "OPEN")
       => sockets'[ws].sent =
            Append(sockets[ws].sent, [kind |-> "binary", bytes |-> last'.arg.b])]_vars

\* C31: once disconnect() has returned, and until connect() is called again,
\* sendAudio sends no frame, also while the connected flag is still set
\* because no close signal has been delivered yet, and an open signal that
\* fires then sends no configuration frame. Neither raises.
C31_SilentAfterDisconnect ==
  [][(last'.op \in {"sendAudio", "open"} /\ ws = 0)
       => /\ \A s \in DOMAIN sockets : sockets'[s].sent = sockets[s].sent
          /\ ~raised']_vars

\* disconnect() closed the second socket, then the first socket's open fired
\* and set the connected flag, then sendAudio was called: nothing was sent.
C31_Witness ==
  /\ last.op = "sendAudio"
  /\ ws = 0
  /\ isConnected
  /\ Len(sockets) = 2
  /\ sockets[1].opened
  /\ sockets[2].closeCalls = 1
  /\ \A s \in DOMAIN sockets : sockets[s].sent = <<>>

\* C32: the completion of a connect() call is pending, resolved with true, or
\* rejected with the error signal of its own socket; it is never resolved
\* with false, and once settled it never changes.
C32_TrueOrError ==
  /\ [](\A s \in DOMAIN promises :
          \/ promises[s] = [state |-> "pending", value |-> Undefined]
          \/ promises[s] = [state |-> "resolved", value |-> Bool(TRUE)]
          \/ promises[s] = [state |-> "rejected", value |-> ErrorEvent(s)])
  /\ [][\A s \in DOMAIN promises :
          promises[s].state # "pending" => promises'[s] = promises[s]]_vars

\* The first connect() resolved with true and its socket then had an error
\* while the connected flag was clear, so reject was called on the resolved
\* completion; the second connect() was rejected.
C32_Witness ==
  /\ last.op = "error"
  /\ last.sock = 1
  /\ ~isConnected
  /\ Len(promises) = 2
  /\ promises[1] = [state |-> "resolved", value |-> Bool(TRUE)]
  /\ promises[2].state = "rejected"

TTSEvents == {"tts.open", "tts.message", "tts.error", "tts.close"}

C34_NoCallbackAfterResolve ==
  /\ [](\A c \in DOMAIN tts :
          tts[c].promise = "resolved" => tts[c].readyState = "CLOSED")
  /\ [][\A c \in DOMAIN tts :
          (tts[c].promise = "resolved" /\ last'.op \in TTSEvents /\ last'.sock = c)
            => \A i \in DOMAIN calls' :
                 calls'[i].cb \notin {"onAudio", "onVisemes"}]_vars

\* The first call opened, was closed and is resolved; after that a chunk of
\* the second call reached that call's audio callback.
C34_Witness ==
  /\ Len(tts) = 2
  /\ tts[1].opened
  /\ tts[1].readyState = "CLOSED"
  /\ tts[1].promise = "resolved"
  /\ tts[2].promise = "pending"
  /\ last.op = "tts.message"
  /\ last.sock = 2
  /\ calls = << [cb |-> "onAudio", arg |-> Bytes(<<1, 2>>)] >>

\* C35: after an error signal has rejected the completion of a synthesize()
\* call the client does not close the socket - it never calls close on it -
\* and a binary frame or a viseme array that still arrives before the close
\* signal reaches the call's audio or viseme callback as any other would.
C35_DeliveredAfterReject ==
  /\ [](\A c \in DOMAIN tts : tts[c].closeCalls = 0)
  /\ [][\A c \in DOMAIN tts :
          (tts[c].promise = "rejected" /\ last'.op = "tts.message" /\ last'.sock = c)
            => LET data == last'.arg
                   cbs == tts[c].options.callbacks
               IN /\ data.kind = "binary"
                       => calls' = IF "onAudio" \in cbs
                                   THEN << [cb |-> "onAudio",
                                            arg |-> [t |-> "bytes", b |-> data.bytes]] >>
                                   ELSE <<>>
                  /\ (data.kind = "text" /\ data.text.json
                      /\ data.text.value.t = "array")
                       => calls' = IF "onVisemes" \in cbs
                                   THEN << [cb |-> "onVisemes",
                                            arg |-> data.text.value] >>
                                   ELSE <<>>]_vars

\* The call's socket had an error after its open, the completion is rejected,
\* and a viseme array that arrived after it reached the viseme callback.
C35_Witness ==
  /\ Len(tts) = 1
  /\ tts[1].promise = "rejected"
  /\ tts[1].readyState = "CLOSING"
  /\ tts[1].closeCalls = 0
  /\ last.op = "tts.message"
  /\ calls = << [cb |-> "onVisemes", arg |-> Arr(<< Num(100) >>)] >>

\* A transcript message whose role is not 'user': 'agent', any other value,
\* or no role at all.
IsOtherTranscript(data) ==
  /\ data.kind = "text"
  /\ data.text.json
  /\ data.text.value.t = "object"
  /\ "type" \in DOMAIN data.text.value.f
  /\ data.text.value.f.type = Str(T_transcript)
  /\ ("role" \in DOMAIN data.text.value.f => data.text.value.f.role # Str(T_user))

\* C36: a transcript whose role is anything but 'user' - 'agent', an unknown
\* value, no role - goes to the response callback, once, with the message's
\* data, and never to the transcription callback; none is dropped for its role.
C36_NonUserToResponse ==
  [][(last'.op = "message" /\ IsOtherTranscript(last'.arg))
       => calls' = IF "onResponse" \in config.callbacks
                   THEN << [cb |-> "onResponse",
                            arg |-> IF "data" \in DOMAIN last'.arg.text.value.f
                                    THEN last'.arg.text.value.f.data
                                    ELSE Undefined] >>
                   ELSE <<>>]_vars

\* A transcript of the unknown role 'hi' reached the response callback of a
\* client that registered the transcription callback too.
C36_Witness ==
  /\ last.op = "message"
  /\ last.arg = TranscriptMessage(Str(S_hi), Str(S_hello))
  /\ "onTranscription" \in config.callbacks
  /\ calls = << [cb |-> "onResponse", arg |-> Str(S_hello)] >>

\* The callback a text frame of the throwing-callback inputs goes to first.
FirstCallOf(data) ==
  LET f == data.text.value.f IN
  CASE f.type = Str(T_audio) -> [cb |-> "onAudio", arg |-> [t |-> "bytes", b |-> <<255>>]]
    [] f.type = Str(T_transcript) ->
         [cb |-> IF f.role = Str(T_user) THEN "onTranscription" ELSE "onResponse",
          arg |-> f.data]
    [] f.type = Str(T_status) -> [cb |-> "onStatus", arg |-> f.data]
    [] f.type = Str(T_error) -> [cb |-> "onError", arg |-> f.data]

\* C37: when a callback throws while a text frame - transcript, status,
\* error, base64 audio - is dispatched, the exception is swallowed: nothing
\* leaves the handler, the handle, the connected flag, the sockets and the
\* completions stay as they were, and every text frame, whatever was thrown
\* before it, is dispatched to its callback.
C37_ThrowSwallowed ==
  [][(last'.op = "message" /\ last'.arg.kind = "text")
       => /\ ~raised'
          /\ UNCHANGED << ws, isConnected, sockets, promises, audioListeners >>
          /\ calls' # <<>>
          /\ calls'[1] = FirstCallOf(last'.arg)]_vars

\* The status callback threw on the first frame and the response callback on
\* the second; the third, the user's transcript, reached the transcription
\* callback, and the session is as the open left it.
C37_Witness ==
  /\ config.throwing = CallbackNames
  /\ Len(log.wire) = 3
  /\ log.wire[1].data = StatusMessage(Str(S_hi))
  /\ log.wire[2].data = TranscriptMessage(Str(T_agent), Str(S_hi))
  /\ log.wire[3].data = TranscriptMessage(Str(T_user), Str(S_hello))
  /\ Len(log.heard) = 3
  /\ log.heard[3].call = [cb |-> "onTranscription", arg |-> Str(S_hello)]
  /\ ~raised
  /\ ws = 1
  /\ isConnected
  /\ sockets[1].readyState = "OPEN"
  /\ promises[1].state = "resolved"

\* C38: AUDIO_CONFIG.CHUNK_SIZE is floor(SAMPLE_RATE * CHUNK_DURATION_MS /
\* 1000) - the integer n with 1000 n <= SAMPLE_RATE * CHUNK_DURATION_MS <
\* 1000 (n + 1) - and with the shipped 44100 Hz and 20 ms it is exactly 882.
C38_ChunkSize ==
  [][last'.op = "CHUNK_SIZE"
       => /\ last'.arg.t = "number"
          /\ last'.arg.h % 100 = 0
          /\ LET n == last'.arg.h \div 100
                 samplesPerSecondMs == AUDIO_CONFIG.SAMPLE_RATE * AUDIO_CONFIG.CHUNK_DURATION_MS
             IN /\ 1000 * n <= samplesPerSecondMs
                /\ samplesPerSecondMs < 1000 * (n + 1)
          /\ (AUDIO_CONFIG.SAMPLE_RATE = 44100 /\ AUDIO_CONFIG.CHUNK_DURATION_MS = 20)
               => last'.arg.h = 88200]_vars

\* CHUNK_SIZE was read from AUDIO_CONFIG as shipped and gave 882.
C38_Witness ==
  /\ AUDIO_CONFIG = [SAMPLE_RATE |-> 44100, CHANNELS |-> 1, CHUNK_DURATION_MS |-> 20]
  /\ last = [op |-> "CHUNK_SIZE", sock |-> 0, arg |-> [t |-> "number", h |-> 88200]]

=============================================================================
